---- MODULE Spec2Model ----
(***************************************************************************)
(* DevEngine manifest generator: backend/generators/kubernetes.js.         *)
(*                                                                         *)
(* A JavaScript object is a TLA+ record; a key the object does not have is *)
(* a key outside its DOMAIN (reading it yields undefined, and null is      *)
(* treated like undefined: both are falsy).  A YAML document is a record   *)
(* of the values the template interpolates, one field per interpolated     *)
(* position, instead of the text itself.                                   *)
(***************************************************************************)
EXTENDS Integers, Sequences, FiniteSets, TLC

VARIABLES
    payload,     \* the request body handed to generateKubernetesManifests
    pc,          \* position inside generateKubernetesManifests
    errors,      \* the local array errors (kubernetes.js:697)
    thrown,      \* the exception that left the function, or NULL
    files,       \* the local object files, as its entries in insertion order
    cmRefs,      \* the local object cmRefs
    secretRefs,  \* the local object secretRefs
    pvcRefs,     \* the local object pvcRefs
    idx,         \* the index of the tier the current forEach is at
    rendered,    \* every document a renderer returned, in call order
    result,      \* the returned mapping, or NULL
    calls,       \* how many compilations this run has started
    memo,        \* the request and outcome of one earlier compilation, or NULL
    boot,        \* the startup of the server: position and locals of
                 \* initDbWithRetry, and whether the server listens
    db,          \* the database behind pool: the templates table
    handlers,    \* the templates requests received, each with the position
                 \* of its handler
    saved,       \* the saveTemplate statements the database has executed,
                 \* in the order it executed them
    exchange,    \* the last request to /api/generate/:module with what its
                 \* handler did, or NULL
    received,    \* how many requests the server has received
    form         \* the state of the form: its tiers

compilerVars == <<payload, pc, errors, thrown, files, cmRefs, secretRefs,
                  pvcRefs, idx, rendered, result, calls, memo>>

serverVars == <<boot, db, handlers, saved, exchange, received>>

vars == <<payload, pc, errors, thrown, files, cmRefs, secretRefs, pvcRefs,
          idx, rendered, result, calls, memo, boot, db, handlers, saved,
          exchange, received, form>>

----------------------------------------------------------------------------
(* JavaScript values *)

NULL == [null |-> TRUE]

EmptyObject == [k \in {} |-> NULL]

Has(o, k) == k \in DOMAIN o

\* truthiness of o.k for a string, a number, a boolean and an object field
TruthyS(o, k) == Has(o, k) /\ o[k] # ""
TruthyN(o, k) == Has(o, k) /\ o[k] # 0
TruthyB(o, k) == Has(o, k) /\ o[k]
TruthyO(o, k) == Has(o, k)

\* `o.k || d` on a string field
OrElseS(o, k, d) == IF TruthyS(o, k) THEN o[k] ELSE d

\* `const { k = d } = o`: the default applies to undefined only
DefaultOf(o, k, d) == IF Has(o, k) THEN o[k] ELSE d

\* `${o.k}` of a string field: undefined interpolates as the text undefined
Interp(o, k) == IF Has(o, k) THEN o[k] ELSE "undefined"

\* The names every object literal {} inherits from Object.prototype (the ones
\* the model's inputs can spell).
ObjectPrototypeKeys == {"constructor"}

\* the value of an inherited member: a function, truthy, with none of the
\* fields the generator reads from it
Inherited == [inherited |-> TRUE]

\* obj[key] on an object created as {}
ObjGet(obj, key) ==
    IF key \in DOMAIN obj THEN obj[key]
    ELSE IF key \in ObjectPrototypeKeys THEN Inherited
    ELSE NULL

\* obj[key] = value
ObjSet(obj, key, value) ==
    [k \in DOMAIN obj \cup {key} |-> IF k = key THEN value ELSE obj[k]]

\* files[filename] = content: an existing key keeps its place, a new one is
\* appended
FilesHas(fs, filename) == \E i \in 1..Len(fs) : fs[i].filename = filename

\* FilesSet for a mapping that lists a key where it was last written: an
\* existing key moves to the end
FilesSetAtEnd(fs, filename, content) ==
    Append(SelectSeq(fs, LAMBDA f : f.filename # filename),
           [filename |-> filename, content |-> content])

FilesSet(fs, filename, content) ==
    IF FilesHas(fs, filename)
    THEN [i \in 1..Len(fs) |->
            IF fs[i].filename = filename
            THEN [filename |-> filename, content |-> content]
            ELSE fs[i]]
    ELSE Append(fs, [filename |-> filename, content |-> content])

FileNames(fs) == {fs[i].filename : i \in 1..Len(fs)}

FileContent(fs, filename) ==
    fs[CHOOSE i \in 1..Len(fs) : fs[i].filename = filename].content

----------------------------------------------------------------------------
(* Field renderers *)

\* renderEnv: the env entries, <<>> for no block
renderEnv(tier) ==
    LET env == DefaultOf(tier, "env", <<>>)
    IN  [i \in 1..Len(env) |-> [name |-> env[i].name, value |-> env[i].value]]

\* ResourceLines with one test for both sub-blocks: each header is pushed
\* when any of the four fields is present
ResourceLinesJoint(resources) ==
    LET rc == TruthyS(resources, "requestsCpu")
        rm == TruthyS(resources, "requestsMemory")
        lc == TruthyS(resources, "limitsCpu")
        lm == TruthyS(resources, "limitsMemory")
        any == rc \/ rm \/ lc \/ lm
    IN  (IF any THEN <<[lead |-> 0, key |-> "requests", value |-> ""]>> ELSE <<>>)
        \o (IF rc THEN <<[lead |-> 2, key |-> "cpu",
                          value |-> resources.requestsCpu]>> ELSE <<>>)
        \o (IF rm THEN <<[lead |-> 2, key |-> "memory",
                          value |-> resources.requestsMemory]>> ELSE <<>>)
        \o (IF any THEN <<[lead |-> 0, key |-> "limits", value |-> ""]>> ELSE <<>>)
        \o (IF lc THEN <<[lead |-> 2, key |-> "cpu",
                          value |-> resources.limitsCpu]>> ELSE <<>>)
        \o (IF lm THEN <<[lead |-> 2, key |-> "memory",
                          value |-> resources.limitsMemory]>> ELSE <<>>)

\* the array lines of renderResources before it is mapped: lead is the number
\* of blanks the pushed text starts with
ResourceLines(resources) ==
    LET rc == TruthyS(resources, "requestsCpu")
        rm == TruthyS(resources, "requestsMemory")
        lc == TruthyS(resources, "limitsCpu")
        lm == TruthyS(resources, "limitsMemory")
        req == IF rc \/ rm
               THEN <<[lead |-> 0, key |-> "requests", value |-> ""]>>
                    \o (IF rc THEN <<[lead |-> 2, key |-> "cpu",
                                      value |-> resources.requestsCpu]>> ELSE <<>>)
                    \o (IF rm THEN <<[lead |-> 2, key |-> "memory",
                                      value |-> resources.requestsMemory]>> ELSE <<>>)
               ELSE <<>>
        lim == IF lc \/ lm
               THEN <<[lead |-> 0, key |-> "limits", value |-> ""]>>
                    \o (IF lc THEN <<[lead |-> 2, key |-> "cpu",
                                      value |-> resources.limitsCpu]>> ELSE <<>>)
                    \o (IF lm THEN <<[lead |-> 2, key |-> "memory",
                                      value |-> resources.limitsMemory]>> ELSE <<>>)
               ELSE <<>>
    IN  req \o lim

\* the indentation the map of renderResources gives line i
ResourceIndent(l, i) ==
    IF i = 1 THEN 12 + l.lead
    ELSE IF l.lead >= 2 THEN 12 + l.lead ELSE 12 + 2 + l.lead

\* renderResources: the lines under `resources:`, <<>> for no block
renderResources(tier) ==
    LET lines == ResourceLines(DefaultOf(tier, "resources", EmptyObject))
    IN  [i \in 1..Len(lines) |->
            [indent |-> ResourceIndent(lines[i], i),
             key |-> lines[i].key, value |-> lines[i].value]]

\* renderHttpProbe with `|| 10` for the destructuring defaults: a supplied 0
\* is replaced like an absent value
renderHttpProbeOrTen(tier, field, type) ==
    IF ~Has(tier, field) THEN NULL
    ELSE LET probe == tier[field]
         IN  IF ~TruthyS(probe, "path") \/ ~TruthyN(probe, "port") THEN NULL
             ELSE [type |-> type,
                   path |-> probe.path,
                   port |-> probe.port,
                   initialDelaySeconds |->
                       IF TruthyN(probe, "initialDelaySeconds")
                       THEN probe.initialDelaySeconds ELSE 10,
                   periodSeconds |->
                       IF TruthyN(probe, "periodSeconds")
                       THEN probe.periodSeconds ELSE 10]

\* renderHttpProbe: the probe block, NULL for no block
renderHttpProbe(tier, field, type) ==
    IF ~Has(tier, field) THEN NULL
    ELSE LET probe == tier[field]
         IN  IF ~TruthyS(probe, "path") \/ ~TruthyN(probe, "port") THEN NULL
             ELSE [type |-> type,
                   path |-> probe.path,
                   port |-> probe.port,
                   initialDelaySeconds |-> DefaultOf(probe, "initialDelaySeconds", 10),
                   periodSeconds |-> DefaultOf(probe, "periodSeconds", 10)]

----------------------------------------------------------------------------
(* Leaf resource renderers *)

\* the line `  storageClassName: "..."`, present only for a truthy class
ScLine(storageClass) ==
    IF storageClass # "" THEN [storageClassName |-> storageClass] ELSE EmptyObject

DataLines(data) ==
    [i \in 1..Len(data) |-> [key |-> data[i].key, value |-> data[i].value]]

renderConfigMap(tier, namespace, appName) ==
    LET configMapData == DefaultOf(tier, "configMapData", <<>>)
        cmName == appName \o "-" \o tier.name \o "-config"
    IN  IF Len(configMapData) = 0 THEN NULL
        ELSE [filename |-> "configmap-" \o tier.name \o ".yaml",
              content |-> [kind |-> "ConfigMap",
                           name |-> cmName,
                           namespace |-> namespace,
                           data |-> DataLines(configMapData)],
              cmName |-> cmName]

renderSecret(tier, namespace, appName) ==
    LET secretData == DefaultOf(tier, "secretData", <<>>)
        secretName == appName \o "-" \o tier.name \o "-secret"
    IN  IF Len(secretData) = 0 THEN NULL
        ELSE [filename |-> "secret-" \o tier.name \o ".yaml",
              content |-> [kind |-> "Secret",
                           name |-> secretName,
                           namespace |-> namespace,
                           type |-> "Opaque",
                           stringData |-> DataLines(secretData)],
              secretName |-> secretName]

generateNamespace(namespace) ==
    [kind |-> "Namespace", name |-> namespace]

generatePVC(tier, namespace, appName) ==
    LET pvc == DefaultOf(tier, "pvc", EmptyObject)
        pvcName == appName \o "-" \o tier.name \o "-pvc"
    IN  IF ~TruthyB(pvc, "enabled") THEN NULL
        ELSE [filename |-> "pvc-" \o tier.name \o ".yaml",
              content |-> [kind |-> "PersistentVolumeClaim",
                           name |-> pvcName,
                           namespace |-> namespace,
                           accessMode |-> DefaultOf(pvc, "accessMode", "ReadWriteOnce"),
                           storage |-> DefaultOf(pvc, "size", "5Gi")]
                          @@ ScLine(DefaultOf(pvc, "storageClass", "")),
              pvcName |-> pvcName]

\* NfsIncomplete with && for ||: only a PV with neither field is refused
NfsIncompleteBoth(pv) == ~TruthyS(pv, "nfsServer") /\ ~TruthyS(pv, "nfsPath")

\* if (!nfsServer || !nfsPath) return null
NfsIncomplete(pv) == ~TruthyS(pv, "nfsServer") \/ ~TruthyS(pv, "nfsPath")

\* the switch of generatePV: the volume source of the backend, NULL where the
\* code returns null
PvVolumeSource(pv, tier, appName) ==
    LET type == pv.type
    IN  CASE type = "hostPath" ->
               [backend |-> "hostPath",
                path |-> OrElseS(pv, "hostPath",
                                 "/mnt/data/" \o appName \o "-" \o tier.name)]
          [] type = "nfs" ->
               IF NfsIncomplete(pv) THEN NULL
               ELSE [backend |-> "nfs", server |-> Interp(pv, "nfsServer"),
                     path |-> Interp(pv, "nfsPath"), readOnly |-> FALSE]
          [] type = "local" ->
               [backend |-> "local",
                path |-> OrElseS(pv, "localPath",
                                 "/mnt/local/" \o appName \o "-" \o tier.name)]
          [] type = "awsEbs" ->
               IF ~TruthyS(pv, "awsVolumeID") THEN NULL
               ELSE [backend |-> "awsElasticBlockStore",
                     volumeID |-> pv.awsVolumeID,
                     fsType |-> OrElseS(pv, "awsFsType", "ext4")]
          [] type = "gcePd" ->
               IF ~TruthyS(pv, "gcePdName") THEN NULL
               ELSE [backend |-> "gcePersistentDisk",
                     pdName |-> pv.gcePdName,
                     fsType |-> OrElseS(pv, "gceFsType", "ext4")]
          [] type = "azureDisk" ->
               IF ~TruthyS(pv, "azureDiskName") \/ ~TruthyS(pv, "azureDiskURI")
               THEN NULL
               ELSE [backend |-> "azureDisk",
                     diskName |-> pv.azureDiskName,
                     diskURI |-> pv.azureDiskURI,
                     kind |-> OrElseS(pv, "azureKind", "Managed"),
                     cachingMode |-> OrElseS(pv, "azureCachingMode", "None")]
          [] type = "cephRbd" ->
               IF \/ ~TruthyS(pv, "cephMonitors") \/ ~TruthyS(pv, "cephPool")
                  \/ ~TruthyS(pv, "cephImage") \/ ~TruthyS(pv, "cephUser")
               THEN NULL
               ELSE [backend |-> "rbd",
                     monitors |-> pv.cephMonitors,
                     pool |-> pv.cephPool,
                     image |-> pv.cephImage,
                     user |-> pv.cephUser,
                     secretRefName |-> OrElseS(pv, "cephSecretName",
                                               appName \o "-ceph-secret"),
                     fsType |-> OrElseS(pv, "cephFsType", "ext4")]
          [] type = "iscsi" ->
               IF \/ ~TruthyS(pv, "iscsiTargetPortal") \/ ~TruthyS(pv, "iscsiIqn")
                  \/ ~TruthyN(pv, "iscsiLun")
               THEN NULL
               ELSE [backend |-> "iscsi",
                     targetPortal |-> pv.iscsiTargetPortal,
                     iqn |-> pv.iscsiIqn,
                     lun |-> pv.iscsiLun,
                     fsType |-> OrElseS(pv, "iscsiFsType", "ext4")]
          [] OTHER -> NULL

generatePV(tier, appName) ==
    LET pv == DefaultOf(tier, "pv", EmptyObject)
    IN  IF ~TruthyB(pv, "enabled") \/ ~TruthyS(pv, "type") \/ pv.type = "none"
        THEN NULL
        ELSE LET volumeSource == PvVolumeSource(pv, tier, appName)
             IN  IF volumeSource = NULL THEN NULL
                 ELSE [filename |-> "pv-" \o tier.name \o ".yaml",
                       content |-> [kind |-> "PersistentVolume",
                                    name |-> appName \o "-" \o tier.name \o "-pv",
                                    storage |-> DefaultOf(pv, "size", "5Gi"),
                                    accessMode |-> DefaultOf(pv, "accessMode",
                                                             "ReadWriteOnce"),
                                    reclaimPolicy |-> DefaultOf(pv, "reclaimPolicy",
                                                                "Retain"),
                                    volumeSource |-> volumeSource]
                                   @@ ScLine(DefaultOf(pv, "storageClass", ""))]

----------------------------------------------------------------------------
(* Workload renderers *)

\* Labels with the two values in each other's place
LabelsSwapped(appName, name) == [app |-> name, tier |-> appName]

\* the labels of a workload or a service: app and tier
Labels(appName, name) == [app |-> appName, tier |-> name]

\* the mounts and volumes both workload renderers build from cmRef, secretRef
RefMounts(name, cmRef, secretRef) ==
    (IF cmRef # NULL
     THEN <<[name |-> Interp(cmRef, "cmName") \o "-vol",
             mountPath |-> "/config/" \o name]>>
     ELSE <<>>)
    \o (IF secretRef # NULL
        THEN <<[name |-> Interp(secretRef, "secretName") \o "-vol",
                mountPath |-> "/secrets/" \o name]>>
        ELSE <<>>)

RefVolumes(cmRef, secretRef) ==
    (IF cmRef # NULL
     THEN <<[name |-> Interp(cmRef, "cmName") \o "-vol",
             source |-> "configMap",
             ref |-> Interp(cmRef, "cmName")]>>
     ELSE <<>>)
    \o (IF secretRef # NULL
        THEN <<[name |-> Interp(secretRef, "secretName") \o "-vol",
                source |-> "secret",
                ref |-> Interp(secretRef, "secretName")]>>
        ELSE <<>>)

generateDeployment(tier, namespace, appName, cmRef, secretRef, pvcRef) ==
    LET name == tier.name
        pvc == DefaultOf(tier, "pvc", EmptyObject)
        volumeMounts ==
            RefMounts(name, cmRef, secretRef)
            \o (IF pvcRef # NULL
                THEN <<[name |-> Interp(pvcRef, "pvcName") \o "-vol",
                        mountPath |-> OrElseS(pvc, "mountPath", "/data")]>>
                ELSE <<>>)
        volumes ==
            RefVolumes(cmRef, secretRef)
            \o (IF pvcRef # NULL
                THEN <<[name |-> Interp(pvcRef, "pvcName") \o "-vol",
                        source |-> "persistentVolumeClaim",
                        ref |-> Interp(pvcRef, "pvcName")]>>
                ELSE <<>>)
    IN  [kind |-> "Deployment",
         name |-> appName \o "-" \o name,
         namespace |-> namespace,
         labels |-> Labels(appName, name),
         replicas |-> tier.replicas,
         selector |-> Labels(appName, name),
         podLabels |-> Labels(appName, name),
         container |-> name,
         image |-> tier.image,
         containerPort |-> tier.containerPort,
         env |-> renderEnv(tier),
         resourceLines |-> renderResources(tier),
         livenessProbe |-> renderHttpProbe(tier, "livenessProbe", "liveness"),
         readinessProbe |-> renderHttpProbe(tier, "readinessProbe", "readiness"),
         volumeMounts |-> volumeMounts,
         volumes |-> volumes]

generateStatefulSet(tier, namespace, appName, cmRef, secretRef) ==
    LET name == tier.name
        pvc == DefaultOf(tier, "pvc", EmptyObject)
        withPvc == Has(tier, "pvc") /\ TruthyB(pvc, "enabled")
        volumeMounts ==
            RefMounts(name, cmRef, secretRef)
            \o (IF withPvc
                THEN <<[name |-> "data",
                        mountPath |-> DefaultOf(pvc, "mountPath", "/data")]>>
                ELSE <<>>)
        volumeClaimTemplates ==
            IF withPvc
            THEN <<[name |-> "data",
                    accessMode |-> DefaultOf(pvc, "accessMode", "ReadWriteOnce"),
                    storage |-> DefaultOf(pvc, "size", "5Gi")]
                   @@ ScLine(DefaultOf(pvc, "storageClass", ""))>>
            ELSE <<>>
    IN  [kind |-> "StatefulSet",
         name |-> appName \o "-" \o name,
         namespace |-> namespace,
         labels |-> Labels(appName, name),
         serviceName |-> appName \o "-" \o name \o "-headless",
         replicas |-> tier.replicas,
         selector |-> Labels(appName, name),
         podLabels |-> Labels(appName, name),
         container |-> name,
         image |-> tier.image,
         containerPort |-> tier.containerPort,
         env |-> renderEnv(tier),
         resourceLines |-> renderResources(tier),
         livenessProbe |-> renderHttpProbe(tier, "livenessProbe", "liveness"),
         readinessProbe |-> renderHttpProbe(tier, "readinessProbe", "readiness"),
         volumeMounts |-> volumeMounts,
         volumes |-> RefVolumes(cmRef, secretRef),
         volumeClaimTemplates |-> volumeClaimTemplates]

----------------------------------------------------------------------------
(* Network renderers *)

\* generateService with the target port always taken from the container
generateServiceContainerPort(tier, namespace, appName) ==
    IF ~TruthyO(tier, "service") THEN NULL
    ELSE [kind |-> "Service",
          name |-> appName \o "-" \o tier.name,
          namespace |-> namespace,
          labels |-> Labels(appName, tier.name),
          type |-> tier.service.type,
          selector |-> Labels(appName, tier.name),
          port |-> tier.service.port,
          targetPort |-> tier.containerPort]

generateService(tier, namespace, appName) ==
    IF ~TruthyO(tier, "service") THEN NULL
    ELSE LET service == tier.service
         IN  [kind |-> "Service",
              name |-> appName \o "-" \o tier.name,
              namespace |-> namespace,
              labels |-> Labels(appName, tier.name),
              type |-> service.type,
              selector |-> Labels(appName, tier.name),
              port |-> service.port,
              targetPort |-> IF TruthyN(service, "targetPort")
                             THEN service.targetPort ELSE tier.containerPort]

\* generateHeadlessService under the name of the regular Service
generateHeadlessServicePlain(tier, namespace, appName) ==
    [kind |-> "Service",
     name |-> appName \o "-" \o tier.name,
     namespace |-> namespace,
     labels |-> Labels(appName, tier.name),
     clusterIP |-> "None",
     selector |-> Labels(appName, tier.name),
     port |-> IF TruthyN(tier, "containerPort") THEN tier.containerPort ELSE 80,
     targetPort |-> IF TruthyN(tier, "containerPort") THEN tier.containerPort ELSE 80]

generateHeadlessService(tier, namespace, appName) ==
    [kind |-> "Service",
     name |-> appName \o "-" \o tier.name \o "-headless",
     namespace |-> namespace,
     labels |-> Labels(appName, tier.name),
     clusterIP |-> "None",
     selector |-> Labels(appName, tier.name),
     port |-> IF TruthyN(tier, "containerPort") THEN tier.containerPort ELSE 80,
     targetPort |-> IF TruthyN(tier, "containerPort") THEN tier.containerPort ELSE 80]

\* what a renderer leaves behind when it throws a TypeError
TypeError == [message |-> "TypeError"]

\* rulesByHost is an object created as {}; it is kept as its own entries in
\* insertion order (the order Object.keys lists them in)
RulesHas(rulesByHost, host) ==
    \E i \in 1..Len(rulesByHost) : rulesByHost[i].host = host

\* one iteration of the forEach of generateIngress; acc.threw once an
\* iteration has thrown, acc.entries the entries of rulesByHost
IngressStep(acc, tier, appName) ==
    IF acc.threw THEN acc
    ELSE IF ~TruthyO(tier, "ingress") \/ ~TruthyO(tier, "service") THEN acc
    ELSE LET rulesByHost == acc.entries
             host == Interp(tier.ingress, "host")
             rule == [path |-> Interp(tier.ingress, "path"),
                      serviceName |-> appName \o "-" \o tier.name,
                      servicePort |-> tier.service.port]
         IN  IF RulesHas(rulesByHost, host)
             THEN [threw |-> FALSE,
                   entries |-> [i \in 1..Len(rulesByHost) |->
                       IF rulesByHost[i].host = host
                       THEN [host |-> host,
                             paths |-> Append(rulesByHost[i].paths, rule)]
                       ELSE rulesByHost[i]]]
             ELSE IF host \in ObjectPrototypeKeys
             \* rulesByHost[host] is the inherited member: truthy, so no array
             \* is created, and it has no push
             THEN [threw |-> TRUE, entries |-> rulesByHost]
             ELSE [threw |-> FALSE,
                   entries |-> Append(rulesByHost,
                                      [host |-> host, paths |-> <<rule>>])]

RECURSIVE IngressRules(_, _, _, _)
IngressRules(tiers, i, appName, acc) ==
    IF i > Len(tiers) THEN acc
    ELSE IngressRules(tiers, i + 1, appName, IngressStep(acc, tiers[i], appName))

\* generateIngress: the Ingress document, NULL when no tier qualifies,
\* TypeError when the function throws
generateIngress(tiers, namespace, appName) ==
    LET acc == IngressRules(tiers, 1, appName, [threw |-> FALSE, entries |-> <<>>])
    IN  IF acc.threw THEN TypeError
        ELSE IF Len(acc.entries) = 0 THEN NULL
        ELSE [kind |-> "Ingress",
              name |-> appName \o "-ingress",
              namespace |-> namespace,
              rules |-> acc.entries]

generateRBAC(namespace, appName) ==
    LET saName == appName \o "-sa"
        roleName == appName \o "-role"
        rbName == appName \o "-rb"
    IN  <<[filename |-> "serviceaccount.yaml",
           content |-> [kind |-> "ServiceAccount", name |-> saName,
                        namespace |-> namespace]],
          [filename |-> "role.yaml",
           content |-> [kind |-> "Role", name |-> roleName,
                        namespace |-> namespace,
                        ruleResources |-> <<"pods", "services", "configmaps", "secrets">>,
                        verbs |-> <<"get", "list", "watch", "create", "update", "delete">>]],
          [filename |-> "rolebinding.yaml",
           content |-> [kind |-> "RoleBinding", name |-> rbName,
                        namespace |-> namespace,
                        subjectKind |-> "ServiceAccount",
                        subjectName |-> saName,
                        subjectNamespace |-> namespace,
                        roleRefKind |-> "Role",
                        roleRefName |-> roleName]]>>

----------------------------------------------------------------------------
(* generateKubernetesManifests *)

\* Array.isArray(payload.tiers): the JSON value under tiers is kept as
\* [isArray, items], items being its elements (for a non-array, the elements
\* of an array-like object with a length)
IsArray(p) == Has(p, "tiers") /\ p.tiers.isArray

TiersOf(p) == IF Has(p, "tiers") THEN p.tiers.items ELSE <<>>

\* ValidationErrors as a fail-fast validator would compute it: the first
\* failed check only
ValidationErrorsFirstOnly(p) ==
    IF ~TruthyS(p, "appName") THEN <<"appName is required">>
    ELSE IF ~TruthyS(p, "namespace") THEN <<"namespace is required">>
    ELSE IF ~IsArray(p) \/ Len(TiersOf(p)) = 0
    THEN <<"At least one tier is required">>
    ELSE <<>>

\* the three checks, in source order
ValidationErrors(p) ==
    (IF ~TruthyS(p, "appName") THEN <<"appName is required">> ELSE <<>>)
    \o (IF ~TruthyS(p, "namespace") THEN <<"namespace is required">> ELSE <<>>)
    \o (IF ~IsArray(p) \/ Len(TiersOf(p)) = 0
        THEN <<"At least one tier is required">> ELSE <<>>)

\* MustThrow with the throw left out: the errors are collected and ignored
MustThrowNever(errs) == FALSE

\* if (errors.length)
MustThrow(errs) == Len(errs) > 0

ValidationError(errs) ==
    [message |-> "Validation failed", statusCode |-> 400, details |-> errs]

\* NewObject with the reference objects hoisted to module scope: each call
\* goes on with what the call before it left
NewObjectShared(stale) == stale

\* const cmRefs = {}: a fresh object, whatever an earlier call left behind
NewObject(stale) == EmptyObject

\* const files = {}
NewFiles(stale) == <<>>

\* the locals of one call: files, the three reference objects and the log of
\* rendered documents
Emit(fr, filename, content, tierIndex) ==
    [fr EXCEPT !.files = FilesSet(fr.files, filename, content),
               !.rendered = Append(fr.rendered,
                                   [filename |-> filename, tier |-> tierIndex,
                                    content |-> content])]

\* BeginFrame with the namespace document left out
BeginFrameNoNamespace(p, stale) ==
    [files |-> NewFiles(stale.files),
     cmRefs |-> NewObject(stale.cmRefs),
     secretRefs |-> NewObject(stale.secretRefs),
     pvcRefs |-> NewObject(stale.pvcRefs),
     rendered |-> <<>>]

\* lines 712-723
BeginFrame(p, stale) ==
    LET fr == [files |-> NewFiles(stale.files),
               cmRefs |-> NewObject(stale.cmRefs),
               secretRefs |-> NewObject(stale.secretRefs),
               pvcRefs |-> NewObject(stale.pvcRefs),
               rendered |-> <<>>]
    IN  IF TruthyB(p, "createNamespace")
        THEN Emit(fr, "namespace.yaml", generateNamespace(Interp(p, "namespace")), 0)
        ELSE fr

\* WantsPVC without the test of the workload type
WantsPVCAnyWorkload(tier) ==
    /\ Has(tier, "pvc")
    /\ TruthyB(tier.pvc, "enabled")

\* the guard of the PVC branch of the first pass (line 739)
WantsPVC(tier) ==
    /\ Has(tier, "pvc")
    /\ TruthyB(tier.pvc, "enabled")
    /\ (~TruthyS(tier, "workloadType") \/ tier.workloadType = "Deployment")

\* the guard of the PV branch of the first pass (line 748)
WantsPV(tier) ==
    /\ Has(tier, "pv")
    /\ TruthyB(tier.pv, "enabled")
    /\ TruthyS(tier.pv, "type")
    /\ tier.pv.type # "none"

\* one iteration of the first forEach
FirstPassTier(fr, tier, i, namespace, appName) ==
    LET cm == renderConfigMap(tier, namespace, appName)
        f1 == IF cm # NULL
              THEN [Emit(fr, cm.filename, cm.content, i)
                      EXCEPT !.cmRefs = ObjSet(fr.cmRefs, tier.name, cm)]
              ELSE fr
        secret == renderSecret(tier, namespace, appName)
        f2 == IF secret # NULL
              THEN [Emit(f1, secret.filename, secret.content, i)
                      EXCEPT !.secretRefs = ObjSet(f1.secretRefs, tier.name, secret)]
              ELSE f1
        pvc == IF WantsPVC(tier) THEN generatePVC(tier, namespace, appName) ELSE NULL
        f3 == IF pvc # NULL
              THEN [Emit(f2, pvc.filename, pvc.content, i)
                      EXCEPT !.pvcRefs = ObjSet(f2.pvcRefs, tier.name, pvc)]
              ELSE f2
        pv == IF WantsPV(tier) THEN generatePV(tier, appName) ELSE NULL
    IN  IF pv # NULL THEN Emit(f3, pv.filename, pv.content, i) ELSE f3

\* one iteration of the second forEach
SecondPassTier(fr, tier, i, namespace, appName) ==
    LET workloadType == OrElseS(tier, "workloadType", "Deployment")
        cmRef == ObjGet(fr.cmRefs, tier.name)
        secretRef == ObjGet(fr.secretRefs, tier.name)
        pvcRef == ObjGet(fr.pvcRefs, tier.name)
        f1 == IF workloadType = "StatefulSet"
              THEN Emit(Emit(fr, "headless-service-" \o tier.name \o ".yaml",
                             generateHeadlessService(tier, namespace, appName), i),
                        "statefulset-" \o tier.name \o ".yaml",
                        generateStatefulSet(tier, namespace, appName, cmRef, secretRef),
                        i)
              ELSE Emit(fr, "deployment-" \o tier.name \o ".yaml",
                        generateDeployment(tier, namespace, appName,
                                           cmRef, secretRef, pvcRef), i)
        svcContent == generateService(tier, namespace, appName)
    IN  IF svcContent # NULL
        THEN Emit(f1, "service-" \o tier.name \o ".yaml", svcContent, i)
        ELSE f1

\* RbacFrame without the test of enableRBAC
RbacFrameAlways(fr, p) ==
    LET rbac == generateRBAC(Interp(p, "namespace"), Interp(p, "appName"))
    IN  Emit(Emit(Emit(fr, rbac[1].filename, rbac[1].content, 0),
                  rbac[2].filename, rbac[2].content, 0),
             rbac[3].filename, rbac[3].content, 0)

\* lines 792-794: Object.assign(files, generateRBAC(...))
RbacFrame(fr, p) ==
    IF TruthyB(p, "enableRBAC")
    THEN LET rbac == generateRBAC(Interp(p, "namespace"), Interp(p, "appName"))
         IN  Emit(Emit(Emit(fr, rbac[1].filename, rbac[1].content, 0),
                       rbac[2].filename, rbac[2].content, 0),
                  rbac[3].filename, rbac[3].content, 0)
    ELSE fr

----------------------------------------------------------------------------
(* Requests *)

MaxTiers == 2
MaxCalls == 3

\* an object with the one key k, for each value of vals, and the object
\* without it
Opt(k, vals) == {EmptyObject} \cup {[x \in {k} |-> v] : v \in vals}

\* every way of merging one object of each of two sets
Merge(A, B) == {a @@ b : a \in A, b \in B}

BaseTier(name) ==
    [name |-> name, replicas |-> 2, image |-> "nginx:1.27", containerPort |-> 80]

Row == <<[key |-> "LOG", value |-> "debug"]>>

WorkloadTypes == Opt("workloadType", {"Deployment", "StatefulSet", "DaemonSet"})

PvcObjects ==
    {[enabled |-> FALSE],
     [enabled |-> TRUE],
     [enabled |-> TRUE, storageClass |-> "fast", size |-> "10Gi",
      mountPath |-> "/data/db", accessMode |-> "ReadWriteMany"],
     [enabled |-> TRUE, storageClass |-> "", size |-> "",
      mountPath |-> "", accessMode |-> "ReadWriteOnce"]}

ServiceObjects ==
    {[type |-> "ClusterIP", port |-> 80],
     [type |-> "NodePort", port |-> 8080, targetPort |-> 3000],
     [type |-> "ClusterIP", port |-> 443, targetPort |-> 0]}

\* tiers that differ in workload type, supporting resources and service
WorkTiers ==
    Merge(Merge(Merge(Merge(Merge({BaseTier("api")},
                                  WorkloadTypes),
                            Opt("configMapData", {Row})),
                      Opt("secretData", {Row})),
                Opt("pvc", {[enabled |-> FALSE], [enabled |-> TRUE]})),
          Opt("service", {[type |-> "ClusterIP", port |-> 80]}))

\* tiers that differ in their PersistentVolumeClaim
PvcTiers ==
    Merge(Merge({BaseTier("api")}, Opt("workloadType", {"StatefulSet"})),
          {[pvc |-> pvc] : pvc \in PvcObjects})

PvOn(type) == [enabled |-> TRUE, type |-> type]

PvObjects ==
    {[enabled |-> FALSE, type |-> "none"],
     [enabled |-> FALSE, type |-> "nfs", nfsServer |-> "10.0.0.1",
      nfsPath |-> "/exports"],
     [enabled |-> TRUE],
     PvOn("none"),
     PvOn("glusterfs")}
    \cup Merge({PvOn("hostPath")}, Opt("hostPath", {"", "/mnt/x"}))
    \cup {PvOn("hostPath") @@ [storageClass |-> "fast", size |-> "10Gi",
                               accessMode |-> "ReadWriteMany",
                               reclaimPolicy |-> "Delete"],
          PvOn("hostPath") @@ [storageClass |-> "", size |-> "",
                               accessMode |-> "ReadWriteOnce",
                               reclaimPolicy |-> "Retain", hostPath |-> "",
                               nfsServer |-> "", nfsPath |-> ""]}
    \cup Merge(Merge({PvOn("nfs")}, Opt("nfsServer", {"", "10.0.0.1"})),
               Opt("nfsPath", {"/exports"}))
    \cup {PvOn("hostPath") @@ [reclaimPolicy |-> ""],
          PvOn("gcePd") @@ [gcePdName |-> "pd-1", gceFsType |-> "xfs"],
          PvOn("azureDisk") @@ [azureDiskName |-> "disk-1",
                                azureDiskURI |-> "/subscriptions/d1",
                                azureKind |-> "Shared",
                                azureCachingMode |-> "ReadOnly"],
          PvOn("cephRbd") @@ [cephMonitors |-> "10.0.0.2:6789", cephPool |-> "rbd",
                              cephImage |-> "img", cephUser |-> "admin",
                              cephSecretName |-> "ceph-key", cephFsType |-> ""],
          PvOn("iscsi") @@ [iscsiTargetPortal |-> "10.0.0.3:3260",
                            iscsiIqn |-> "iqn.2001-04.com.example:storage",
                            iscsiLun |-> 1, iscsiFsType |-> "xfs"]}
    \cup Merge({PvOn("local")}, Opt("localPath", {"/mnt/disk"}))
    \cup Merge(Merge({PvOn("awsEbs")}, Opt("awsVolumeID", {"vol-1"})),
               Opt("awsFsType", {"xfs"}))
    \cup Merge({PvOn("gcePd")}, Opt("gcePdName", {"", "pd-1"}))
    \cup Merge(Merge({PvOn("azureDisk")}, Opt("azureDiskName", {"disk-1"})),
               Opt("azureDiskURI", {"/subscriptions/d1"}))
    \cup Merge(Merge(Merge(Merge({PvOn("cephRbd")},
                                 Opt("cephMonitors", {"10.0.0.2:6789"})),
                           Opt("cephPool", {"rbd"})),
                     Opt("cephImage", {"img"})),
               Opt("cephUser", {"admin"}))
    \cup Merge(Merge(Merge({PvOn("iscsi")},
                           Opt("iscsiTargetPortal", {"10.0.0.3:3260"})),
                     Opt("iscsiIqn", {"iqn.2001-04.com.example:storage"})),
               Opt("iscsiLun", {0, 1}))

\* tiers that differ in their PersistentVolume
PvTiers ==
    {BaseTier("api") @@ [pv |-> pv] : pv \in PvObjects}

IngressObjects ==
    {[host |-> "a.example", path |-> "/"],
     [host |-> "a.example", path |-> "/api"],
     [host |-> "b.example", path |-> "/"],
     [host |-> "constructor", path |-> "/"]}

\* tiers that differ in service and ingress
IngressTiers ==
    Merge(Merge({BaseTier(n) : n \in {"api", "db"}},
                Opt("service", ServiceObjects)),
          Opt("ingress", IngressObjects))

ResourceObjects ==
    Merge(Merge(Merge(Opt("requestsCpu", {"100m"}),
                      Opt("requestsMemory", {"128Mi"})),
                Opt("limitsCpu", {"500m"})),
          Opt("limitsMemory", {"512Mi"}))
    \cup {[requestsCpu |-> "", requestsMemory |-> "128Mi", limitsCpu |-> "500m"],
          [requestsCpu |-> "", requestsMemory |-> "", limitsCpu |-> "",
           limitsMemory |-> ""]}

\* tiers that differ in their resources
ResourceTiers ==
    Merge(Merge({BaseTier("api")}, Opt("workloadType", {"StatefulSet"})),
          {[resources |-> r] : r \in ResourceObjects})

ProbeObjects ==
    Merge(Merge(Merge(Opt("path", {"/healthz"}), Opt("port", {8080})),
                Opt("initialDelaySeconds", {0, 5})),
          Opt("periodSeconds", {0}))
    \cup {[path |-> "", port |-> 8080], [path |-> "/healthz", port |-> 0]}

\* tiers that differ in their probes: a Deployment in its liveness probe, a
\* StatefulSet in its readiness probe
ProbeTiers ==
    {BaseTier("api") @@ [livenessProbe |-> probe] : probe \in ProbeObjects}
    \cup {BaseTier("api") @@ [workloadType |-> "StatefulSet",
                              livenessProbe |-> [path |-> "/healthz", port |-> 80,
                                                 initialDelaySeconds |-> 10,
                                                 periodSeconds |-> 15],
                              readinessProbe |-> probe] : probe \in ProbeObjects}

\* the tiers of the requests that leave the request-level flags out
MinimalTiers ==
    Merge(Merge({BaseTier(n) : n \in {"api", "constructor"}},
                Opt("workloadType", {"Deployment"})),
          Opt("service", ServiceObjects))

\* the tiers every family is combined with
Companions ==
    {BaseTier("api") @@ [configMapData |-> Row,
                         service |-> [type |-> "ClusterIP", port |-> 80],
                         ingress |-> [host |-> "a.example", path |-> "/"]],
     BaseTier("db") @@ [workloadType |-> "StatefulSet", secretData |-> Row,
                        pvc |-> [enabled |-> TRUE],
                        pv |-> PvOn("hostPath"),
                        ingress |-> [host |-> "a.example", path |-> "/db"]],
     BaseTier("api") @@ [workloadType |-> "StatefulSet",
                         pvc |-> [enabled |-> TRUE, mountPath |-> "/var/lib"],
                         service |-> [type |-> "NodePort", port |-> 8080,
                                      targetPort |-> 3000],
                         ingress |-> [host |-> "b.example", path |-> "/"]],
     BaseTier("constructor")}

\* the sequences of 1..MaxTiers tiers with one tier of Family, at any
\* position, among tiers of Others
TierSeqs(Family, Others) ==
    UNION {UNION {{[i \in 1..n |-> IF i = pos THEN f ELSE rest[i]] :
                     f \in Family, rest \in [1..n -> Others]} :
                  pos \in 1..n} :
           n \in 1..MaxTiers}

Flags ==
    {[createNamespace |-> TRUE, enableRBAC |-> FALSE],
     [createNamespace |-> FALSE, enableRBAC |-> TRUE]}

RbacOnly == {[createNamespace |-> FALSE, enableRBAC |-> TRUE]}

ValidPayloads(Family, Others, Flagged) ==
    {[appName |-> "web", namespace |-> "dev",
      tiers |-> [isArray |-> TRUE, items |-> ts]] @@ fl :
        ts \in TierSeqs(Family, Others), fl \in Flagged}

\* requests that differ in what the three checks look at
CheckedPayloads ==
    Merge(Merge(Merge(Opt("appName", {"", "web"}), Opt("namespace", {"", "dev"})),
                Opt("tiers", {[isArray |-> a, items |-> ts] :
                                 a \in BOOLEAN,
                                 ts \in {<<>>} \cup TierSeqs({BaseTier("api")},
                                                             Companions)})),
          {[createNamespace |-> c, enableRBAC |-> r] : c, r \in BOOLEAN})

\* single-tier requests with enableRBAC left out, and createNamespace true or
\* left out
MinimalPayloads ==
    {[appName |-> "web", namespace |-> "dev",
      tiers |-> [isArray |-> TRUE, items |-> <<t>>]] @@ fl :
        t \in MinimalTiers, fl \in Opt("createNamespace", {TRUE})}

Payloads ==
    CheckedPayloads
    \cup MinimalPayloads
    \cup ValidPayloads(WorkTiers, Companions, Flags)
    \cup ValidPayloads(PvcTiers, Companions, RbacOnly)
    \cup ValidPayloads(PvTiers, Companions, RbacOnly)
    \cup ValidPayloads(IngressTiers, Companions, RbacOnly)
    \cup ValidPayloads(ResourceTiers, Companions, RbacOnly)
    \cup ValidPayloads(ProbeTiers, Companions, RbacOnly)

\* the tiers of the runs that compile more than once: two of one name
RepeatTiers ==
    {t \in Companions : t.name = "api"}

\* the requests of the runs that compile more than once
RepeatPayloads ==
    ValidPayloads(RepeatTiers, RepeatTiers,
                  {[createNamespace |-> TRUE, enableRBAC |-> TRUE]})
    \cup {p \in CheckedPayloads :
            /\ ~Has(p, "tiers")
            /\ Has(p, "namespace")
            /\ p.createNamespace
            /\ ~p.enableRBAC}

----------------------------------------------------------------------------
(* The process at load: server.js, db.js and the form *)

\* `await initDbWithRetry(15, 2000)`
StartupRetries == 15

\* initDbWithRetry(retries) entered: i = 0, no call of db.init made yet
Booting(retries) ==
    [pc |-> "loop", retries |-> retries, i |-> 0, attempts |-> 0, waits |-> 0,
     listening |-> FALSE]

\* the database with no template in it; the table exists when an earlier
\* run of the server has created it
Database(exists) == [exists |-> exists, rows |-> {}, seq |-> 1, now |-> 1]

\* emptyTier(), as far as its three key/value lists
emptyTier == [env |-> <<>>, configMapData |-> <<>>, secretData |-> <<>>]

\* useState([emptyTier()])
NewForm == [tiers |-> <<emptyTier>>]

----------------------------------------------------------------------------
(* The compilation, step by step *)

Frame ==
    [files |-> files, cmRefs |-> cmRefs, secretRefs |-> secretRefs,
     pvcRefs |-> pvcRefs, rendered |-> rendered]

SetFrame(fr) ==
    /\ files' = fr.files
    /\ cmRefs' = fr.cmRefs
    /\ secretRefs' = fr.secretRefs
    /\ pvcRefs' = fr.pvcRefs
    /\ rendered' = fr.rendered

\* the state a call starts from: nothing rendered, nothing returned; files
\* and the reference objects are whatever the locals of an earlier call held
Enter(p) ==
    /\ payload' = p
    /\ pc' = "validate"
    /\ errors' = <<>>
    /\ thrown' = NULL
    /\ rendered' = <<>>
    /\ result' = NULL
    /\ idx' = 0

InitWith(P) ==
    /\ payload \in P
    /\ pc = "validate"
    /\ errors = <<>>
    /\ thrown = NULL
    /\ files = <<>>
    /\ cmRefs = EmptyObject
    /\ secretRefs = EmptyObject
    /\ pvcRefs = EmptyObject
    /\ idx = 0
    /\ rendered = <<>>
    /\ result = NULL
    /\ calls = 1
    /\ memo = NULL
    /\ boot = Booting(StartupRetries)
    /\ db = Database(FALSE)
    /\ handlers = <<>>
    /\ saved = <<>>
    /\ exchange = NULL
    /\ received = 0
    /\ form = NewForm

Init == InitWith(Payloads)

\* lines 697-710: the three checks and the throw
Validate ==
    /\ pc = "validate"
    /\ LET errs == ValidationErrors(payload)
       IN  /\ errors' = errs
           /\ IF MustThrow(errs)
              THEN /\ thrown' = ValidationError(errs)
                   /\ pc' = "threw"
              ELSE /\ thrown' = thrown
                   /\ pc' = "begin"
    /\ UNCHANGED <<payload, files, cmRefs, secretRefs, pvcRefs, idx, rendered,
                   result, calls, memo>>
    /\ UNCHANGED <<serverVars, form>>

\* lines 712-723: the locals and namespace.yaml; tiers.forEach throws a
\* TypeError on a value that is no array
Begin ==
    /\ pc = "begin"
    /\ SetFrame(BeginFrame(payload, Frame))
    /\ idx' = 1
    /\ IF ~IsArray(payload)
       THEN pc' = "threw" /\ thrown' = TypeError
       ELSE /\ thrown' = thrown
            /\ pc' = IF Len(TiersOf(payload)) = 0 THEN "ingress" ELSE "pass1"
    /\ UNCHANGED <<payload, errors, result, calls, memo>>
    /\ UNCHANGED <<serverVars, form>>

\* lines 726-754: one iteration of the first pass
FirstPass ==
    /\ pc = "pass1"
    /\ SetFrame(FirstPassTier(Frame, TiersOf(payload)[idx], idx,
                              Interp(payload, "namespace"),
                              Interp(payload, "appName")))
    /\ IF idx = Len(TiersOf(payload))
       THEN pc' = "pass2" /\ idx' = 1
       ELSE pc' = pc /\ idx' = idx + 1
    /\ UNCHANGED <<payload, errors, thrown, result, calls, memo>>
    /\ UNCHANGED <<serverVars, form>>

\* lines 757-785: one iteration of the second pass
SecondPass ==
    /\ pc = "pass2"
    /\ SetFrame(SecondPassTier(Frame, TiersOf(payload)[idx], idx,
                               Interp(payload, "namespace"),
                               Interp(payload, "appName")))
    /\ IF idx = Len(TiersOf(payload))
       THEN pc' = "ingress" /\ idx' = 0
       ELSE pc' = pc /\ idx' = idx + 1
    /\ UNCHANGED <<payload, errors, thrown, result, calls, memo>>
    /\ UNCHANGED <<serverVars, form>>

\* lines 787-790
Ingress ==
    /\ pc = "ingress"
    /\ LET ingress == generateIngress(TiersOf(payload),
                                      Interp(payload, "namespace"),
                                      Interp(payload, "appName"))
       IN  IF ingress = TypeError
           THEN /\ pc' = "threw"
                /\ thrown' = TypeError
                /\ UNCHANGED <<files, cmRefs, secretRefs, pvcRefs, rendered>>
           ELSE /\ pc' = "rbac"
                /\ thrown' = thrown
                /\ SetFrame(IF ingress # NULL
                            THEN Emit(Frame, "ingress.yaml", ingress, 0)
                            ELSE Frame)
    /\ UNCHANGED <<payload, errors, idx, result, calls, memo>>
    /\ UNCHANGED <<serverVars, form>>

\* lines 792-796: the RBAC files and the return
Return ==
    /\ pc = "rbac"
    /\ LET fr == RbacFrame(Frame, payload)
       IN  /\ SetFrame(fr)
           /\ result' = [files |-> fr.files]
    /\ pc' = "returned"
    /\ UNCHANGED <<payload, errors, thrown, idx, calls, memo>>
    /\ UNCHANGED <<serverVars, form>>

Next ==
    \/ Validate
    \/ Begin
    \/ FirstPass
    \/ SecondPass
    \/ Ingress
    \/ Return

Spec == Init /\ [][Next]_vars

\* what the caller of generateKubernetesManifests observes
Outcome == [status |-> pc, thrown |-> thrown, result |-> result]

Finished == pc \in {"returned", "threw"}

\* the caller compiles another request after the one that has finished; memo
\* keeps the first compilation of the run
Again ==
    /\ Finished
    /\ calls < MaxCalls
    /\ \E p \in RepeatPayloads : Enter(p)
    /\ calls' = calls + 1
    /\ memo' = IF memo = NULL
               THEN [payload |-> payload, outcome |-> Outcome]
               ELSE memo
    /\ UNCHANGED <<files, cmRefs, secretRefs, pvcRefs>>
    /\ UNCHANGED <<serverVars, form>>

InitRepeat == InitWith(RepeatPayloads)

NextRepeat ==
    \/ Validate
    \/ Begin
    \/ FirstPass
    \/ SecondPass
    \/ Ingress
    \/ Return
    \/ Again

SpecRepeat == InitRepeat /\ [][NextRepeat]_vars

----------------------------------------------------------------------------
(* The compilation as one function of the request *)

RECURSIVE FirstPassFrom(_, _, _, _, _)
FirstPassFrom(fr, tiers, i, namespace, appName) ==
    IF i > Len(tiers) THEN fr
    ELSE FirstPassFrom(FirstPassTier(fr, tiers[i], i, namespace, appName),
                       tiers, i + 1, namespace, appName)

RECURSIVE SecondPassFrom(_, _, _, _, _)
SecondPassFrom(fr, tiers, i, namespace, appName) ==
    IF i > Len(tiers) THEN fr
    ELSE SecondPassFrom(SecondPassTier(fr, tiers[i], i, namespace, appName),
                        tiers, i + 1, namespace, appName)

EmptyFrame ==
    [files |-> <<>>, cmRefs |-> EmptyObject, secretRefs |-> EmptyObject,
     pvcRefs |-> EmptyObject, rendered |-> <<>>]

\* generateKubernetesManifests(p), as its caller observes it
Compile(p) ==
    LET errs == ValidationErrors(p)
        namespace == Interp(p, "namespace")
        appName == Interp(p, "appName")
        tiers == TiersOf(p)
        f0 == BeginFrame(p, EmptyFrame)
        f1 == FirstPassFrom(f0, tiers, 1, namespace, appName)
        f2 == SecondPassFrom(f1, tiers, 1, namespace, appName)
        ingress == generateIngress(tiers, namespace, appName)
        f3 == IF ingress # NULL THEN Emit(f2, "ingress.yaml", ingress, 0) ELSE f2
    IN  IF MustThrow(errs)
        THEN [status |-> "threw", thrown |-> ValidationError(errs), result |-> NULL]
        ELSE IF ~IsArray(p) \/ ingress = TypeError
        THEN [status |-> "threw", thrown |-> TypeError, result |-> NULL]
        ELSE [status |-> "returned", thrown |-> NULL,
              result |-> [files |-> RbacFrame(f3, p).files]]

----------------------------------------------------------------------------
(* The server: server.js and db.js *)

MaxRetries == 2
MaxRequests == 2

\* the retries initDbWithRetry is entered with: those of the startup, and
\* small ones
Retries == {StartupRetries} \cup 0..MaxRetries

\* initDbWithRetry has returned: its parameters and locals are gone
Returned(b) ==
    [pc |-> "finished", retries |-> 0, i |-> 0, attempts |-> 0, waits |-> 0,
     listening |-> b.listening]

\* `if (i < retries - 1) await new Promise(...)`
SleepsAlways(b) == TRUE

Sleeps(b) == b.i < b.retries - 1

\* what app.listen waits for: where it stands in the startup, after the
\* await of initDbWithRetry
ListenAtLoad(b) == TRUE

ListenReady(b) == b.pc = "finished"

\* the server dispatches a request to a handler once it listens
Listening == boot.listening

\* INSERT ... ON CONFLICT (name) DO UPDATE SET content = EXCLUDED.content:
\* a row of that name keeps its id and created_at; the sequence behind id
\* advances either way
saveTemplateInsertOnly(d, name, content) ==
    [d EXCEPT !.rows = @ \cup {[id |-> d.seq, name |-> name,
                                content |-> content, created_at |-> d.now]},
              !.seq = @ + 1,
              !.now = @ + 1]

saveTemplate(d, name, content) ==
    IF \E r \in d.rows : r.name = name
    THEN [d EXCEPT !.rows = {IF r.name = name
                             THEN [r EXCEPT !.content = content]
                             ELSE r : r \in @},
                   !.seq = @ + 1,
                   !.now = @ + 1]
    ELSE [d EXCEPT !.rows = @ \cup {[id |-> d.seq, name |-> name,
                                     content |-> content,
                                     created_at |-> d.now]},
                   !.seq = @ + 1,
                   !.now = @ + 1]

\* RETURNING id, name, created_at
Returning(d, name) ==
    LET r == CHOOSE r \in d.rows : r.name = name
    IN  [id |-> r.id, name |-> r.name, created_at |-> r.created_at]

\* SELECT ... WHERE id = $1, and `res.rows[0] || null`
getTemplate(d, id) ==
    IF \E r \in d.rows : r.id = id
    THEN CHOOSE r \in d.rows : r.id = id
    ELSE NULL

\* the bodies of POST /api/templates, and the ids of GET /api/templates/:id
TemplateBodies ==
    {[name |-> n, content |-> c] : n \in {"a", "b"}, c \in {"x", "y"}}
    \cup {[name |-> "", content |-> "x"], [name |-> "a"]}

TemplateIds == 1..MaxRequests

\* POST /api/generate/:module, as what the handler did with one request:
\* whether it called generateKubernetesManifests, and the responses it sent
postGenerateAlways500(module, body) ==
    [request |-> [module |-> module, body |-> body],
     compiled |-> TRUE,
     responses |-> <<[status |-> 500, body |-> [success |-> FALSE]]>>]

postGenerate(module, body) ==
    LET request == [module |-> module, body |-> body]
        out == Compile(body)
        err == out.thrown
    IN  IF module = "kubernetes"
        THEN IF out.status = "returned"
             THEN [request |-> request,
                   compiled |-> TRUE,
                   responses |-> <<[status |-> 200,
                                    body |-> [success |-> TRUE,
                                              files |-> out.result.files]]>>]
             ELSE [request |-> request,
                   compiled |-> TRUE,
                   responses |->
                       <<[status |-> IF TruthyN(err, "statusCode")
                                     THEN err.statusCode ELSE 500,
                          body |-> [success |-> FALSE,
                                    error |-> OrElseS(err, "message",
                                                      "Internal Server Error"),
                                    details |-> IF Has(err, "details")
                                                THEN err.details
                                                ELSE NULL]]>>]
        ELSE [request |-> request,
              compiled |-> FALSE,
              responses |->
                  <<[status |-> 400,
                     body |-> [success |-> FALSE,
                               error |-> "Module '" \o module
                                         \o "' not implemented yet"]]>>]

Modules == {"kubernetes", "terraform"}

\* the bodies sent to the endpoint: requests that differ in what the three
\* checks look at, one with a tier behind an ingress host, and one whose
\* ingress host is a name every object inherits
GenerateBodies ==
    {p \in CheckedPayloads :
        /\ p.createNamespace
        /\ ~p.enableRBAC
        /\ Has(p, "appName") => p.appName # ""
        /\ Has(p, "namespace")
        /\ Has(p, "tiers") => p.tiers.items \in {<<>>, <<BaseTier("api")>>}}
    \cup {p \in ValidPayloads(IngressTiers, Companions, RbacOnly) :
            /\ Len(p.tiers.items) = 1
            /\ p.tiers.items[1].name = "api"
            /\ Has(p.tiers.items[1], "service")
            /\ p.tiers.items[1].service.port = 80
            /\ Has(p.tiers.items[1], "ingress")
            /\ p.tiers.items[1].ingress.path = "/"}

GenerateRequests ==
    {r \in [module : Modules, body : GenerateBodies] :
        r.module # "kubernetes" =>
            /\ r.body.namespace = "dev"
            /\ Has(r.body, "tiers") => Len(r.body.tiers.items) = 1}

\* no compilation is under way outside a generate handler
CompilerIdle ==
    /\ payload = NULL
    /\ pc = "idle"
    /\ errors = <<>>
    /\ thrown = NULL
    /\ files = <<>>
    /\ cmRefs = EmptyObject
    /\ secretRefs = EmptyObject
    /\ pvcRefs = EmptyObject
    /\ idx = 0
    /\ rendered = <<>>
    /\ result = NULL
    /\ calls = 0
    /\ memo = NULL

InitServer ==
    /\ CompilerIdle
    /\ boot \in {Booting(r) : r \in Retries}
    /\ db \in {Database(e) : e \in BOOLEAN}
    /\ handlers = <<>>
    /\ saved = <<>>
    /\ exchange = NULL
    /\ received = 0
    /\ form = NewForm

\* lines 84-86: the loop test passes and db.init is called
CallInit ==
    /\ boot.pc = "loop"
    /\ boot.i < boot.retries
    /\ boot' = [boot EXCEPT !.pc = "init", !.attempts = @ + 1]
    /\ UNCHANGED <<compilerVars, db, handlers, saved, exchange, received, form>>

\* db.init resolves, the table created if it was not there (db.js 7-18);
\* lines 87-88: initDbWithRetry returns
InitResolves ==
    /\ boot.pc = "init"
    /\ db' = [db EXCEPT !.exists = TRUE]
    /\ boot' = Returned(boot)
    /\ UNCHANGED <<compilerVars, handlers, saved, exchange, received, form>>

\* db.init rejects; lines 89-91: the catch block, which starts the timer of
\* the delay, or goes on to the next iteration
InitRejects ==
    /\ boot.pc = "init"
    /\ boot' = IF Sleeps(boot)
               THEN [boot EXCEPT !.pc = "sleep", !.waits = @ + 1]
               ELSE [boot EXCEPT !.pc = "loop", !.i = @ + 1]
    /\ UNCHANGED <<compilerVars, db, handlers, saved, exchange, received, form>>

\* the timer fires: the next iteration
WakeUp ==
    /\ boot.pc = "sleep"
    /\ boot' = [boot EXCEPT !.pc = "loop", !.i = @ + 1]
    /\ UNCHANGED <<compilerVars, db, handlers, saved, exchange, received, form>>

\* line 94: the loop has run out; initDbWithRetry returns
GiveUp ==
    /\ boot.pc = "loop"
    /\ boot.i >= boot.retries
    /\ boot' = Returned(boot)
    /\ UNCHANGED <<compilerVars, db, handlers, saved, exchange, received, form>>

\* lines 97-102: app.listen, after the await of initDbWithRetry
Listen ==
    /\ ListenReady(boot)
    /\ ~boot.listening
    /\ boot' = [boot EXCEPT !.listening = TRUE]
    /\ UNCHANGED <<compilerVars, db, handlers, saved, exchange, received, form>>

\* lines 18-24: POST /api/templates up to its query
PostTemplate ==
    /\ Listening
    /\ received < MaxRequests
    /\ \E body \in TemplateBodies :
          handlers' = Append(handlers,
              IF ~TruthyS(body, "name") \/ ~TruthyS(body, "content")
              THEN [op |-> "save", body |-> body, id |-> 0,
                    stage |-> "answered", status |-> 400, row |-> NULL]
              ELSE [op |-> "save", body |-> body, id |-> 0,
                    stage |-> "query", status |-> 0, row |-> NULL])
    /\ received' = received + 1
    /\ UNCHANGED <<compilerVars, boot, db, saved, exchange, form>>

\* lines 43-46: GET /api/templates/:id up to its query
GetTemplateById ==
    /\ Listening
    /\ received < MaxRequests
    /\ \E id \in TemplateIds :
          handlers' = Append(handlers,
              [op |-> "get", body |-> EmptyObject, id |-> id,
               stage |-> "query", status |-> 0, row |-> NULL])
    /\ received' = received + 1
    /\ UNCHANGED <<compilerVars, boot, db, saved, exchange, form>>

\* the database executes the statement of one handler: db.js 25-36; a
\* statement on a table that does not exist fails
Execute ==
    /\ \E n \in 1..Len(handlers) :
          LET h == handlers[n]
          IN  /\ h.stage = "query"
              /\ IF ~db.exists
                 THEN /\ handlers' = [handlers EXCEPT ![n].stage = "rejected"]
                      /\ UNCHANGED <<db, saved>>
                 ELSE IF h.op = "save"
                 THEN LET d == saveTemplate(db, h.body.name, h.body.content)
                      IN  /\ db' = d
                          /\ saved' = Append(saved, h.body)
                          /\ handlers' =
                                [handlers EXCEPT
                                    ![n].stage = "resolved",
                                    ![n].row = Returning(d, h.body.name)]
                 ELSE /\ handlers' = [handlers EXCEPT
                                         ![n].stage = "resolved",
                                         ![n].row = getTemplate(db, h.id)]
                      /\ UNCHANGED <<db, saved>>
    /\ UNCHANGED <<compilerVars, boot, exchange, received, form>>

\* lines 25-29 and 46-51: the handler answers once its query has settled
Respond ==
    /\ \E n \in 1..Len(handlers) :
          LET h == handlers[n]
          IN  /\ h.stage \in {"resolved", "rejected"}
              /\ handlers' =
                    [handlers EXCEPT
                        ![n].stage = "answered",
                        ![n].status = IF h.stage = "rejected" THEN 500
                                      ELSE IF h.op = "get" /\ h.row = NULL
                                      THEN 404
                                      ELSE 200]
    /\ UNCHANGED <<compilerVars, boot, db, saved, exchange, received, form>>

\* lines 55-75: POST /api/generate/:module
PostGenerate ==
    /\ Listening
    /\ received < MaxRequests
    /\ \E r \in GenerateRequests : exchange' = postGenerate(r.module, r.body)
    /\ received' = received + 1
    /\ UNCHANGED <<compilerVars, boot, db, handlers, saved, form>>

NextServer ==
    \/ CallInit
    \/ InitResolves
    \/ InitRejects
    \/ WakeUp
    \/ GiveUp
    \/ Listen
    \/ PostTemplate
    \/ GetTemplateById
    \/ Execute
    \/ Respond
    \/ PostGenerate

SpecServer == InitServer /\ [][NextServer]_vars

\* the event loop runs every continuation that is ready; a timer that was
\* set fires; a call of db.init settles, one way or the other
SpecServerLive ==
    /\ SpecServer
    /\ WF_vars(CallInit)
    /\ WF_vars(InitResolves \/ InitRejects)
    /\ WF_vars(WakeUp)
    /\ WF_vars(GiveUp)
    /\ WF_vars(Listen)

----------------------------------------------------------------------------
(* The form: KubernetesGenerator *)

MaxRows == 2

\* the three key/value lists of a tier
Lists == {"env", "configMapData", "secretData"}

\* the row addKeyValue appends
BlankRow == [name |-> "", value |-> "", key |-> ""]

\* the two inputs of a row: NAME and value for env, KEY and value otherwise
InputsOf(list) == IF list = "env" THEN {"name", "value"} ELSE {"key", "value"}

\* the rows of the whole form
RECURSIVE RowsIn(_)
RowsIn(tiers) ==
    IF tiers = <<>> THEN 0
    ELSE Len(tiers[1].env) + Len(tiers[1].configMapData)
         + Len(tiers[1].secretData) + RowsIn(Tail(tiers))

\* arr.splice(rowIndex, 1), rows counted from 1: nothing goes when the
\* array has no such row
Splice(arr, rowIndex) ==
    IF rowIndex > Len(arr) THEN arr
    ELSE SubSeq(arr, 1, rowIndex - 1) \o SubSeq(arr, rowIndex + 1, Len(arr))

\* lines 163-170
addKeyValue(tiers, index, field) ==
    [tiers EXCEPT ![index][field] = Append(@, BlankRow)]

\* lines 172-178
updateKeyValue(tiers, tierIndex, field, rowIndex, key, value) ==
    [tiers EXCEPT ![tierIndex][field][rowIndex][key] = value]

\* lines 180-186
removeKeyValue(tiers, tierIndex, field, rowIndex) ==
    [tiers EXCEPT ![tierIndex][field] = Splice(@, rowIndex)]

\* the list the remove button of a row of each list hands to removeKeyValue
\* (lines 769, 842, 907)
RemoveButtonField(list) ==
    CASE list = "env" -> "secretData"
      [] list = "configMapData" -> "configMapData"
      [] list = "secretData" -> "env"

InitForm ==
    /\ CompilerIdle
    /\ boot = Booting(StartupRetries)
    /\ db = Database(FALSE)
    /\ handlers = <<>>
    /\ saved = <<>>
    /\ exchange = NULL
    /\ received = 0
    /\ form = NewForm

\* line 155
AddTier ==
    /\ Len(form.tiers) < MaxTiers
    /\ form' = [form EXCEPT !.tiers = Append(@, emptyTier)]
    /\ UNCHANGED <<compilerVars, serverVars>>

\* lines 157-160: the button of tier index
RemoveTier ==
    /\ Len(form.tiers) # 1
    /\ \E index \in 1..Len(form.tiers) :
          form' = [form EXCEPT !.tiers =
                      SubSeq(@, 1, index - 1) \o SubSeq(@, index + 1, Len(@))]
    /\ UNCHANGED <<compilerVars, serverVars>>

\* the + Add button of one list of tier index (lines 727, 793, 864)
PressAdd(index, list) ==
    /\ RowsIn(form.tiers) < MaxRows
    /\ form' = [form EXCEPT !.tiers = addKeyValue(@, index, list)]
    /\ UNCHANGED <<compilerVars, serverVars>>

AddRow ==
    \E index \in 1..Len(form.tiers), list \in Lists : PressAdd(index, list)

\* typing into one input of row rIndex of one list of tier index
EditRow ==
    /\ \E index \in 1..Len(form.tiers), list \in Lists :
          \E rIndex \in 1..Len(form.tiers[index][list]),
             key \in InputsOf(list), value \in {"A"} :
              form' = [form EXCEPT !.tiers =
                          updateKeyValue(@, index, list, rIndex, key, value)]
    /\ UNCHANGED <<compilerVars, serverVars>>

\* the remove button of row rIndex of one list of tier index, rendered for
\* every row of the list
PressRemove(index, list, rIndex) ==
    /\ index \in 1..Len(form.tiers)
    /\ rIndex \in 1..Len(form.tiers[index][list])
    /\ form' = [form EXCEPT !.tiers =
                   removeKeyValue(@, index, RemoveButtonField(list), rIndex)]
    /\ UNCHANGED <<compilerVars, serverVars>>

RemoveRow ==
    \E index \in 1..Len(form.tiers), list \in Lists :
        \E rIndex \in 1..Len(form.tiers[index][list]) :
            PressRemove(index, list, rIndex)

NextForm ==
    \/ AddTier
    \/ RemoveTier
    \/ AddRow
    \/ EditRow
    \/ RemoveRow

SpecForm == InitForm /\ [][NextForm]_vars

----------------------------------------------------------------------------
(* Properties *)

AppNameMissing(p) == ~Has(p, "appName") \/ p.appName = ""
NamespaceMissing(p) == ~Has(p, "namespace") \/ p.namespace = ""
TiersMissing(p) ==
    ~Has(p, "tiers") \/ ~p.tiers.isArray \/ Len(p.tiers.items) = 0

Invalid(p) == AppNameMissing(p) \/ NamespaceMissing(p) \/ TiersMissing(p)

ExpectedViolations(p) ==
    (IF AppNameMissing(p) THEN <<"appName is required">> ELSE <<>>)
    \o (IF NamespaceMissing(p) THEN <<"namespace is required">> ELSE <<>>)
    \o (IF TiersMissing(p) THEN <<"At least one tier is required">> ELSE <<>>)

FailedValidation == pc = "threw" /\ Has(thrown, "details")

\* C1: once the checks have run, the call has failed with a validation error
\* exactly when appName or namespace is missing or empty or tiers is no
\* non-empty array, and the error's details list one entry per failed check,
\* all of them, in the order appName, namespace, tiers.
C1_ValidationCompleteness ==
    pc # "validate" =>
        /\ FailedValidation <=> Invalid(payload)
        /\ FailedValidation => thrown.details = ExpectedViolations(payload)
        /\ errors = ExpectedViolations(payload)

\* a request with appName and tiers missing and namespace given has failed
C1_Witness ==
    /\ FailedValidation
    /\ thrown.details = <<"appName is required", "At least one tier is required">>

\* C2: for a request that fails a check, nothing is ever rendered, no file is
\* stored and nothing is returned; whatever is rendered is rendered after the
\* checks have passed.
C2_NoPartialOutput ==
    /\ Invalid(payload) =>
          /\ rendered = <<>>
          /\ files = <<>>
          /\ result = NULL
          /\ pc \in {"validate", "threw"}
    /\ rendered # <<>> => pc # "validate" /\ errors = <<>>

\* a failed request that asked for its (valid) namespace to be created
C2_Witness ==
    /\ FailedValidation
    /\ TruthyB(payload, "createNamespace")
    /\ ~NamespaceMissing(payload)
    /\ rendered = <<>>

TheSameAsBefore ==
    (Finished /\ memo # NULL /\ memo.payload = payload) => Outcome = memo.outcome

\* C3: a compilation that has finished has the outcome the first compilation
\* of the same request had, whatever was compiled in between, and no step of
\* a compilation changes the request.
C3_Determinism ==
    /\ []TheSameAsBefore
    /\ [][~Finished => payload' = payload]_vars

\* the third compilation of a run returns files for the request the first
\* one compiled
C3_Witness ==
    /\ calls = MaxCalls
    /\ pc = "returned"
    /\ memo # NULL
    /\ memo.payload = payload
    /\ Len(result.files) >= 3

Tiers == TiersOf(payload)

\* the documents rendered so far for tier i
RenderedOf(i) == {rendered[j] : j \in {k \in 1..Len(rendered) : rendered[k].tier = i}}

DocsOf(i, kind) == {e.content : e \in {r \in RenderedOf(i) : r.content.kind = kind}}

Headless(doc) == doc.kind = "Service" /\ Has(doc, "clusterIP")

Workload(doc) == doc.kind \in {"Deployment", "StatefulSet"}

\* {appName}-{tier.name}{suffix}
Named(t, suffix) == payload.appName \o "-" \o t.name \o suffix

\* the suffix of the name of each kind of document
SuffixOf(doc) ==
    CASE doc.kind = "ConfigMap" -> "-config"
      [] doc.kind = "Secret" -> "-secret"
      [] doc.kind = "PersistentVolumeClaim" -> "-pvc"
      [] doc.kind = "PersistentVolume" -> "-pv"
      [] Headless(doc) -> "-headless"
      [] OTHER -> ""

\* the suffix of the name of the document a volume of a workload refers to
SuffixOfSource(source) ==
    CASE source = "configMap" -> "-config"
      [] source = "secret" -> "-secret"
      [] source = "persistentVolumeClaim" -> "-pvc"

\* C4 as stated: every document rendered for a tier has the name
\* {appName}-{tier.name} with the suffix of its kind (none for the workload
\* and the Service); every volume of a workload refers to a ConfigMap, Secret
\* or PersistentVolumeClaim by the name that kind has for the tier, and a
\* StatefulSet names the headless Service of the tier.
C4_NamingInvariant ==
    \A i \in 1..Len(Tiers) :
        \A e \in RenderedOf(i) :
            LET d == e.content
            IN  /\ d.name = Named(Tiers[i], SuffixOf(d))
                /\ Workload(d) =>
                      \A k \in 1..Len(d.volumes) :
                          d.volumes[k].ref =
                              Named(Tiers[i], SuffixOfSource(d.volumes[k].source))
                /\ d.kind = "StatefulSet" =>
                      d.serviceName = Named(Tiers[i], "-headless")

KindsRendered == {rendered[j].content.kind : j \in 1..Len(rendered)}

NamespacedKinds ==
    {"ConfigMap", "Secret", "PersistentVolumeClaim", "Deployment", "StatefulSet",
     "Service"}

LabelledKinds == {"Deployment", "StatefulSet", "Service"}

\* C5 as stated: every ConfigMap, Secret, PersistentVolumeClaim, Deployment,
\* StatefulSet, Service and headless Service rendered carries the request's
\* namespace and the labels app = appName and tier = tier.name.
C5_NamespaceAndLabels ==
    \A i \in 1..Len(Tiers) :
        \A e \in RenderedOf(i) :
            e.content.kind \in NamespacedKinds =>
                /\ e.content.namespace = payload.namespace
                /\ Has(e.content, "labels")
                /\ e.content.labels = [app |-> payload.appName, tier |-> Tiers[i].name]

\* C5 as amended: every such document carries the request's namespace; the
\* Deployment, the StatefulSet, the Service and the headless Service carry
\* the labels app = appName and tier = tier.name, while the ConfigMap, the
\* Secret and the PersistentVolumeClaim carry no labels.
C5_NamespaceAndWorkloadLabels ==
    \A i \in 1..Len(Tiers) :
        \A e \in RenderedOf(i) :
            e.content.kind \in NamespacedKinds =>
                /\ e.content.namespace = payload.namespace
                /\ IF e.content.kind \in LabelledKinds
                   THEN /\ Has(e.content, "labels")
                        /\ e.content.labels.app = payload.appName
                        /\ e.content.labels.tier = Tiers[i].name
                   ELSE ~Has(e.content, "labels")

\* a compilation that rendered all seven kinds of namespaced document
C5_Witness ==
    /\ pc = "returned"
    /\ NamespacedKinds \subseteq KindsRendered
    /\ \E j \in 1..Len(rendered) : Headless(rendered[j].content)

\* C6 as stated: every document rendered is stored under a filename of its
\* own: files has one entry per rendered document, each holding that
\* document, and so has the mapping returned.
C6_FilenameUniqueness ==
    pc \in {"pass1", "pass2", "ingress", "rbac", "returned"} =>
        /\ Len(files) = Len(rendered)
        /\ \A j \in 1..Len(rendered) :
              /\ FilesHas(files, rendered[j].filename)
              /\ FileContent(files, rendered[j].filename) = rendered[j].content
        /\ pc = "returned" => Len(result.files) = Len(rendered)

EightBackends ==
    {"hostPath", "nfs", "local", "awsEbs", "gcePd", "azureDisk", "cephRbd", "iscsi"}

\* the required-field table
RequiredFields(type) ==
    CASE type = "nfs" -> {"nfsServer", "nfsPath"}
      [] type = "awsEbs" -> {"awsVolumeID"}
      [] type = "gcePd" -> {"gcePdName"}
      [] type = "azureDisk" -> {"azureDiskName", "azureDiskURI"}
      [] type = "cephRbd" -> {"cephMonitors", "cephPool", "cephImage", "cephUser"}
      [] type = "iscsi" -> {"iscsiTargetPortal", "iscsiIqn", "iscsiLun"}
      [] OTHER -> {}

\* a field is supplied when it is given and, for a text, not blank; a LUN is
\* supplied when any number is given
Supplied(pv, f) == Has(pv, f) /\ (IF f = "iscsiLun" THEN TRUE ELSE pv[f] # "")

PvEnabled(t) == Has(t, "pv") /\ Has(t.pv, "enabled") /\ t.pv.enabled

PvComplete(t) ==
    /\ Has(t.pv, "type")
    /\ t.pv.type \in EightBackends
    /\ \A f \in RequiredFields(t.pv.type) : Supplied(t.pv, f)

\* the request with the pv of tier i switched off
DisablePv(p, i) == [p EXCEPT !.tiers.items[i].pv.enabled = FALSE]

\* C7: when a compilation has finished and a tier has pv.enabled with a type
\* that is not recognized or with a required field missing, no
\* PersistentVolume was rendered for that tier and the outcome (success, and
\* every file and its content) is the outcome of compiling the same request
\* with that tier's pv disabled.
C7_PvPartialSuccess ==
    Finished =>
        \A i \in 1..Len(Tiers) :
            (PvEnabled(Tiers[i]) /\ ~PvComplete(Tiers[i])) =>
                /\ DocsOf(i, "PersistentVolume") = {}
                /\ Outcome = Compile(DisablePv(payload, i))

\* a compilation has returned files for a request whose first tier asks for
\* an nfs PersistentVolume without nfsServer, next to a tier with one
C7_Witness ==
    /\ pc = "returned"
    /\ Len(Tiers) = 2
    /\ PvEnabled(Tiers[1])
    /\ Has(Tiers[1].pv, "type")
    /\ Tiers[1].pv.type = "nfs"
    /\ ~Has(Tiers[1].pv, "nfsServer")
    /\ Has(Tiers[1].pv, "nfsPath")
    /\ DocsOf(2, "PersistentVolume") # {}
    /\ Len(result.files) >= 4

\* C8 as stated: a PersistentVolume is rendered for a tier, and stored as
\* pv-{tier.name}.yaml, exactly when pv.enabled is true, pv.type is one of
\* the eight backends and every field the table requires of it is supplied,
\* a LUN of 0 being a supplied LUN.
C8_PvApplicability ==
    pc \in {"pass2", "ingress", "rbac", "returned"} =>
        \A i \in 1..Len(Tiers) :
            /\ DocsOf(i, "PersistentVolume") # {}
                  <=> (PvEnabled(Tiers[i]) /\ PvComplete(Tiers[i]))
            /\ DocsOf(i, "PersistentVolume") # {}
                  => FilesHas(files, "pv-" \o Tiers[i].name \o ".yaml")

StatefulWithPvc(t) ==
    /\ Has(t, "workloadType")
    /\ t.workloadType = "StatefulSet"
    /\ Has(t, "pvc")
    /\ Has(t.pvc, "enabled")
    /\ t.pvc.enabled

MountsNamed(d, name) ==
    {k \in 1..Len(d.volumeMounts) : d.volumeMounts[k].name = name}

\* C9: for a tier with workloadType StatefulSet and pvc.enabled, no
\* PersistentVolumeClaim is ever rendered; once the second pass is over its
\* StatefulSet has been rendered, and that document has no volume that
\* refers to a claim, exactly one volumeClaimTemplates entry, named data, and
\* exactly one volumeMount named data.
C9_StatefulSetExclusivity ==
    \A i \in 1..Len(Tiers) :
        StatefulWithPvc(Tiers[i]) =>
            /\ DocsOf(i, "PersistentVolumeClaim") = {}
            /\ pc \in {"ingress", "rbac", "returned"} => DocsOf(i, "StatefulSet") # {}
            /\ \A d \in DocsOf(i, "StatefulSet") :
                  /\ \A k \in 1..Len(d.volumes) :
                        d.volumes[k].source # "persistentVolumeClaim"
                  /\ Len(d.volumeClaimTemplates) = 1
                  /\ d.volumeClaimTemplates[1].name = "data"
                  /\ Cardinality(MountsNamed(d, "data")) = 1

\* a StatefulSet tier with pvc.enabled has been compiled after a Deployment
\* tier of the same name whose pvc-{name}.yaml is among the files
C9_Witness ==
    /\ pc = "returned"
    /\ Len(Tiers) = 2
    /\ StatefulWithPvc(Tiers[2])
    /\ Tiers[1].name = Tiers[2].name
    /\ DocsOf(1, "PersistentVolumeClaim") # {}
    /\ DocsOf(2, "StatefulSet") # {}

\* a tier with both ingress and service populated
Qualifies(t) == Has(t, "ingress") /\ Has(t, "service")

QualifyingHosts == {Tiers[i].ingress.host : i \in {k \in 1..Len(Tiers) : Qualifies(Tiers[k])}}

\* the path rules of the qualifying tiers with ingress.host = host, in tier
\* input order
RulesOf(host) ==
    LET all == [i \in 1..Len(Tiers) |-> i]
        own == SelectSeq(all, LAMBDA i : Qualifies(Tiers[i])
                                          /\ Tiers[i].ingress.host = host)
    IN  [k \in 1..Len(own) |->
            [path |-> Tiers[own[k]].ingress.path,
             serviceName |-> payload.appName \o "-" \o Tiers[own[k]].name,
             servicePort |-> Tiers[own[k]].service.port]]

\* the grouping of a returned mapping: ingress.yaml is there exactly when a
\* tier qualifies, and is then one Ingress named {appName}-ingress with one
\* host block per distinct host and under it the rules of that host
Grouped(fs) ==
    /\ FilesHas(fs, "ingress.yaml") <=> QualifyingHosts # {}
    /\ FilesHas(fs, "ingress.yaml") =>
          LET doc == FileContent(fs, "ingress.yaml")
          IN  /\ doc.kind = "Ingress"
              /\ doc.name = payload.appName \o "-ingress"
              /\ Cardinality({e \in RenderedOf(0) : e.content.kind = "Ingress"}) = 1
              /\ {doc.rules[k].host : k \in 1..Len(doc.rules)} = QualifyingHosts
              /\ Len(doc.rules) = Cardinality(QualifyingHosts)
              /\ \A k \in 1..Len(doc.rules) :
                    doc.rules[k].paths = RulesOf(doc.rules[k].host)

\* every mapping that is returned is grouped: what is left of the grouping
\* when the calls that throw are set aside
GroupedOnReturn ==
    pc = "returned" => Grouped(result.files)

\* C10: every compilation of a request that passes validation ends with an
\* output that has ingress.yaml exactly when a tier has both ingress and
\* service; it is then one Ingress named {appName}-ingress with one host
\* block per distinct ingress.host of the qualifying tiers and, under each
\* host, one rule per qualifying tier of that host, in tier input order; a
\* tier with ingress and no service adds no rule.
C10_IngressGrouping ==
    (Finished /\ ~Invalid(payload)) =>
        /\ pc = "returned"
        /\ Grouped(result.files)

\* what a tier declares: a non-empty list, an enabled pvc or pv, a present
\* service or ingress block
DeclaresList(t, k) == Has(t, k) /\ Len(t[k]) > 0
DeclaresEnabled(t, k) == Has(t, k) /\ TruthyB(t[k], "enabled")

\* a request with createNamespace true, enableRBAC unset and a single
\* Deployment tier that declares a service and nothing else
MinimalScenario ==
    /\ TruthyB(payload, "createNamespace")
    /\ ~Has(payload, "enableRBAC")
    /\ Len(Tiers) = 1
    /\ (Has(Tiers[1], "workloadType") => Tiers[1].workloadType = "Deployment")
    /\ Has(Tiers[1], "service")
    /\ ~DeclaresList(Tiers[1], "configMapData")
    /\ ~DeclaresList(Tiers[1], "secretData")
    /\ ~DeclaresEnabled(Tiers[1], "pvc")
    /\ ~DeclaresEnabled(Tiers[1], "pv")
    /\ ~Has(Tiers[1], "ingress")

\* C11: the compilation of a request with createNamespace true, enableRBAC
\* unset and one Deployment tier t that declares a service and no
\* configMapData, secretData, pvc, pv or ingress returns, and returns exactly
\* the files namespace.yaml, deployment-t.yaml and service-t.yaml; the
\* Deployment has the tier's replicas and image, the Service the port of
\* tier.service.
C11_MinimalScenario ==
    (Finished /\ MinimalScenario) =>
        /\ pc = "returned"
        /\ Len(result.files) = 3
        /\ FileNames(result.files) =
              {"namespace.yaml",
               "deployment-" \o Tiers[1].name \o ".yaml",
               "service-" \o Tiers[1].name \o ".yaml"}
        /\ LET d == FileContent(result.files,
                                "deployment-" \o Tiers[1].name \o ".yaml")
               v == FileContent(result.files,
                                "service-" \o Tiers[1].name \o ".yaml")
           IN  /\ d.kind = "Deployment"
               /\ d.replicas = Tiers[1].replicas
               /\ d.image = Tiers[1].image
               /\ v.kind = "Service"
               /\ v.port = Tiers[1].service.port

\* the minimal request for a tier api of 2 replicas of nginx:1.27 behind
\* port 80 has been compiled
C11_Witness ==
    /\ pc = "returned"
    /\ MinimalScenario
    /\ Tiers[1].name = "api"
    /\ Tiers[1].replicas = 2
    /\ Tiers[1].image = "nginx:1.27"
    /\ Tiers[1].service.port = 80
    /\ Len(result.files) = 3

\* the volumes of workload document d that refer to a document of kind source
VolumesOf(d, source) ==
    {k \in 1..Len(d.volumes) : d.volumes[k].source = source}

\* the kind of document each kind of volume refers to
KindOfSource(source) ==
    CASE source = "configMap" -> "ConfigMap"
      [] source = "secret" -> "Secret"
      [] source = "persistentVolumeClaim" -> "PersistentVolumeClaim"

\* workload document d of tier i mounts a volume of kind source exactly when
\* a document of that kind was rendered for tier i, and then refers to it
WiredToOwn(i, d, source) ==
    /\ VolumesOf(d, source) # {} <=> DocsOf(i, KindOfSource(source)) # {}
    /\ \A k \in VolumesOf(d, source) :
          \E r \in DocsOf(i, KindOfSource(source)) : r.name = d.volumes[k].ref

\* the first forEach has visited every tier
PassOneDone == pc \in {"pass2", "ingress", "rbac", "returned"}

\* C12 as stated: the workload document of every tier has a ConfigMap volume
\* exactly when a ConfigMap was rendered for that tier, which is when its
\* configMapData is not empty, a Secret volume exactly when a Secret was
\* rendered for that tier, and, for a Deployment, a claim volume exactly when
\* a PersistentVolumeClaim was rendered for that tier; every volume refers to
\* a document rendered for that tier.
C12_VolumeWiring ==
    \A i \in 1..Len(Tiers) :
        /\ PassOneDone =>
              /\ DocsOf(i, "ConfigMap") # {}
                    <=> DeclaresList(Tiers[i], "configMapData")
              /\ DocsOf(i, "Secret") # {}
                    <=> DeclaresList(Tiers[i], "secretData")
        /\ \A e \in RenderedOf(i) :
              LET d == e.content
              IN  /\ Workload(d) =>
                        /\ WiredToOwn(i, d, "configMap")
                        /\ WiredToOwn(i, d, "secret")
                  /\ d.kind = "Deployment" =>
                        WiredToOwn(i, d, "persistentVolumeClaim")

\* the second forEach has visited every tier
PassTwoDone == pc \in {"ingress", "rbac", "returned"}

\* C13 as stated: whatever workloadType is, a PersistentVolumeClaim is
\* rendered for a tier exactly when pvc.enabled is true and the workload
\* rendered for the tier is a Deployment; and every Deployment rendered for a
\* tier with pvc.enabled has a claim volume that refers to
\* {appName}-{tier.name}-pvc.
C13_PvcApplicability ==
    PassTwoDone =>
        \A i \in 1..Len(Tiers) :
            /\ DocsOf(i, "PersistentVolumeClaim") # {}
                  <=> (DeclaresEnabled(Tiers[i], "pvc")
                       /\ DocsOf(i, "Deployment") # {})
            /\ DeclaresEnabled(Tiers[i], "pvc") =>
                  \A d \in DocsOf(i, "Deployment") :
                      \E k \in VolumesOf(d, "persistentVolumeClaim") :
                          d.volumes[k].ref = Named(Tiers[i], "-pvc")

\* pvc.mountPath when it is supplied and not blank, /data otherwise
StorageMountPath(t) ==
    IF Has(t, "pvc") /\ Has(t.pvc, "mountPath") /\ t.pvc.mountPath # ""
    THEN t.pvc.mountPath
    ELSE "/data"

\* the path the mount named n of a workload of tier t has to have: n is the
\* volume of the tier's ConfigMap, Secret or claim, or the claim template
\* data of a StatefulSet
MountPathOf(t, d, n) ==
    CASE n = Named(t, "-config") \o "-vol" -> "/config/" \o t.name
      [] n = Named(t, "-secret") \o "-vol" -> "/secrets/" \o t.name
      [] n = Named(t, "-pvc") \o "-vol" -> StorageMountPath(t)
      [] n = "data" /\ d.kind = "StatefulSet" -> StorageMountPath(t)
      [] OTHER -> "?"

MountNames(t) ==
    {Named(t, "-config") \o "-vol", Named(t, "-secret") \o "-vol",
     Named(t, "-pvc") \o "-vol", "data"}

\* C14 as stated: in every workload document of a tier the ConfigMap of the
\* tier is mounted at /config/{tier.name}, its Secret at /secrets/{tier.name}
\* and its storage (the claim of a Deployment, the claim template data of a
\* StatefulSet) at pvc.mountPath when that is supplied and not blank and at
\* /data otherwise, the same path for both kinds of workload.
C14_MountPaths ==
    \A i \in 1..Len(Tiers) :
        \A e \in RenderedOf(i) :
            Workload(e.content) =>
                \A k \in 1..Len(e.content.volumeMounts) :
                    LET m == e.content.volumeMounts[k]
                    IN  m.name \in MountNames(Tiers[i]) =>
                            m.mountPath = MountPathOf(Tiers[i], e.content, m.name)

\* a size or an access mode is supplied when it is given and not blank
SuppliedOr(o, k, d) == IF Has(o, k) /\ o[k] # "" THEN o[k] ELSE d

\* the storage declaration d (a claim, a claim template or a volume) made
\* from the object o (the pvc or the pv of the tier)
DeclaresStorage(d, o) ==
    /\ d.storage = SuppliedOr(o, "size", "5Gi")
    /\ d.accessMode = SuppliedOr(o, "accessMode", "ReadWriteOnce")
    /\ d.storage # ""
    /\ d.accessMode # ""
    /\ IF SuppliedOr(o, "storageClass", "") = ""
       THEN ~Has(d, "storageClassName")
       ELSE Has(d, "storageClassName") /\ d.storageClassName = o.storageClass

\* C15 as stated: every PersistentVolumeClaim, every claim template of a
\* StatefulSet and every PersistentVolume rendered declares a size and an
\* access mode that are not blank: the ones supplied in pvc (in pv for the
\* volume), 5Gi and ReadWriteOnce for one that is left out or sent as the
\* empty string; the storageClassName line is there exactly when storageClass
\* is not blank.
C15_StorageDefaults ==
    \A i \in 1..Len(Tiers) :
        \A e \in RenderedOf(i) :
            LET d == e.content
            IN  /\ d.kind = "PersistentVolumeClaim" => DeclaresStorage(d, Tiers[i].pvc)
                /\ d.kind = "PersistentVolume" => DeclaresStorage(d, Tiers[i].pv)
                /\ d.kind = "StatefulSet" =>
                      \A k \in 1..Len(d.volumeClaimTemplates) :
                          DeclaresStorage(d.volumeClaimTemplates[k], Tiers[i].pvc)

\* the place of a rendered document in the order of generation: the
\* namespace, then the supporting documents of the tiers, tier by tier, then
\* the workload documents and the Service of the tiers, tier by tier, then
\* the Ingress, then the RBAC documents
Rank(e) ==
    LET d == e.content
    IN  CASE d.kind = "Namespace" -> 0
          [] d.kind = "ConfigMap" -> 1000 + 10 * e.tier + 1
          [] d.kind = "Secret" -> 1000 + 10 * e.tier + 2
          [] d.kind = "PersistentVolumeClaim" -> 1000 + 10 * e.tier + 3
          [] d.kind = "PersistentVolume" -> 1000 + 10 * e.tier + 4
          [] Workload(d) \/ Headless(d) -> 2000 + 10 * e.tier + 1
          [] d.kind = "Service" /\ ~Headless(d) -> 2000 + 10 * e.tier + 2
          [] d.kind = "Ingress" -> 3000
          [] d.kind = "ServiceAccount" -> 4001
          [] d.kind = "Role" -> 4002
          [] d.kind = "RoleBinding" -> 4003

\* the filenames of the rendered documents, each at its first rendering
FirstRenderings ==
    LET first == SelectSeq([j \in 1..Len(rendered) |-> j],
                           LAMBDA j : \A k \in 1..(j - 1) :
                               rendered[k].filename # rendered[j].filename)
    IN  [n \in 1..Len(first) |-> rendered[first[n]].filename]

Compiling == pc \in {"pass1", "pass2", "ingress", "rbac", "returned"}

\* C16: at every point of a compilation the documents rendered so far were
\* rendered in the order namespace, supporting documents of all tiers in
\* tier order (ConfigMap, Secret, PersistentVolumeClaim, PersistentVolume),
\* workload documents then Service of each tier in tier order, Ingress, RBAC
\* documents; the keys of files are in the order of their first rendering,
\* and so are the keys of the mapping returned; a workload document is
\* rendered only when the first pass has visited every tier.
C16_GenerationOrder ==
    Compiling =>
        /\ \A j \in 1..Len(rendered) : \A k \in 1..(j - 1) :
              Rank(rendered[k]) <= Rank(rendered[j])
        /\ [n \in 1..Len(files) |-> files[n].filename] = FirstRenderings
        /\ pc = "returned" => result.files = files
        /\ (\E j \in 1..Len(rendered) : Workload(rendered[j].content)) =>
              /\ PassOneDone
              /\ \A i \in 1..Len(Tiers) :
                    /\ DeclaresList(Tiers[i], "configMapData")
                          => DocsOf(i, "ConfigMap") # {}
                    /\ DeclaresList(Tiers[i], "secretData")
                          => DocsOf(i, "Secret") # {}

\* a compilation of two tiers of one name has returned supporting files of
\* both, a StatefulSet, two Services, the Ingress and the RBAC files
C16_Witness ==
    /\ pc = "returned"
    /\ Len(Tiers) = 2
    /\ DocsOf(1, "ConfigMap") # {}
    /\ DocsOf(2, "ConfigMap") # {}
    /\ DocsOf(2, "Secret") # {}
    /\ DocsOf(2, "StatefulSet") # {}
    /\ DocsOf(1, "Service") # {}
    /\ \E j \in 1..Len(rendered) : rendered[j].content.kind = "Ingress"
    /\ FilesHas(result.files, "rolebinding.yaml")
    /\ Len(files) < Len(rendered)

\* the headless Services rendered for tier i
HeadlessOf(i) == {d \in DocsOf(i, "Service") : Headless(d)}

\* the regular Services rendered for tier i
ServicesOf(i) == {d \in DocsOf(i, "Service") : ~Headless(d)}

\* the tier is rendered as a StatefulSet
Stateful(t) == Has(t, "workloadType") /\ t.workloadType = "StatefulSet"

\* C17: a headless Service is rendered for a tier only if the tier is
\* rendered as a StatefulSet; once the second pass is over, every tier
\* rendered as a StatefulSet, with a service block or without, has exactly
\* one headless Service, with clusterIP None, stored as
\* headless-service-{tier.name}.yaml, and the serviceName of its StatefulSet
\* is the name of that headless Service; no other tier has one.
C17_HeadlessPairing ==
    \A i \in 1..Len(Tiers) :
        /\ HeadlessOf(i) # {} => Stateful(Tiers[i])
        /\ DocsOf(i, "StatefulSet") # {} => Stateful(Tiers[i])
        /\ (PassTwoDone /\ Stateful(Tiers[i])) =>
              /\ Cardinality(HeadlessOf(i)) = 1
              /\ Cardinality(DocsOf(i, "StatefulSet")) = 1
              /\ DocsOf(i, "Deployment") = {}
              /\ \A h \in HeadlessOf(i) :
                    /\ h.clusterIP = "None"
                    /\ \A d \in DocsOf(i, "StatefulSet") : d.serviceName = h.name
              /\ \E e \in RenderedOf(i) :
                    /\ Headless(e.content)
                    /\ e.filename = "headless-service-" \o Tiers[i].name \o ".yaml"
                    /\ FilesHas(files, e.filename)
        /\ (PassTwoDone /\ ~Stateful(Tiers[i])) =>
              /\ HeadlessOf(i) = {}
              /\ Cardinality(DocsOf(i, "Deployment")) = 1

\* two StatefulSet tiers have been compiled, one with a service block and one
\* without, next to no Deployment
C17_Witness ==
    /\ pc = "returned"
    /\ Len(Tiers) = 2
    /\ Stateful(Tiers[1])
    /\ Stateful(Tiers[2])
    /\ Has(Tiers[1], "service")
    /\ ~Has(Tiers[2], "service")
    /\ HeadlessOf(1) # {}
    /\ HeadlessOf(2) # {}
    /\ ServicesOf(1) # {}
    /\ FilesHas(result.files, "headless-service-" \o Tiers[2].name \o ".yaml")

\* service.targetPort is set: given, and not the number 0, which is no port
TargetPortSet(t) == Has(t.service, "targetPort") /\ t.service.targetPort # 0

\* C18: a Service is rendered for a tier only if the tier has a service
\* block; once the second pass is over, every tier with a service block,
\* whatever its workload type, has exactly one Service, stored as
\* service-{tier.name}.yaml, whose targetPort is service.targetPort when that
\* is set and the tier's containerPort otherwise; no other tier has one.
C18_ServiceApplicability ==
    \A i \in 1..Len(Tiers) :
        /\ ServicesOf(i) # {} => Has(Tiers[i], "service")
        /\ PassTwoDone =>
              /\ ServicesOf(i) # {} <=> Has(Tiers[i], "service")
              /\ Cardinality(ServicesOf(i)) <= 1
              /\ \A v \in ServicesOf(i) :
                    /\ v.port = Tiers[i].service.port
                    /\ v.targetPort = IF TargetPortSet(Tiers[i])
                                      THEN Tiers[i].service.targetPort
                                      ELSE Tiers[i].containerPort
                    /\ FilesHas(files, "service-" \o Tiers[i].name \o ".yaml")

\* a StatefulSet tier with a target port of its own and a Deployment tier
\* without one have been compiled, each with its Service
C18_Witness ==
    /\ pc = "returned"
    /\ Len(Tiers) = 2
    /\ Stateful(Tiers[1])
    /\ ~Stateful(Tiers[2])
    /\ Has(Tiers[1], "service")
    /\ Has(Tiers[2], "service")
    /\ TargetPortSet(Tiers[1])
    /\ ~Has(Tiers[2].service, "targetPort")
    /\ \E v \in ServicesOf(1) : v.targetPort = 3000
    /\ \E v \in ServicesOf(2) : v.targetPort = Tiers[2].containerPort

RbacFiles == {"serviceaccount.yaml", "role.yaml", "rolebinding.yaml"}

\* how many times a document was rendered under filename
TimesRendered(filename) ==
    Cardinality({j \in 1..Len(rendered) : rendered[j].filename = filename})

\* C19: the mapping returned has serviceaccount.yaml, role.yaml and
\* rolebinding.yaml, each rendered once whatever the number of tiers, when
\* enableRBAC is true, and none of them when it is false or left out; the
\* RoleBinding's subject is the ServiceAccount of serviceaccount.yaml and
\* its roleRef the Role of role.yaml; no RBAC file is stored before the
\* last step of the compilation.
C19_RbacTriad ==
    /\ pc = "returned" =>
          IF TruthyB(payload, "enableRBAC")
          THEN /\ RbacFiles \subseteq FileNames(result.files)
               /\ \A f \in RbacFiles : TimesRendered(f) = 1
               /\ LET sa == FileContent(result.files, "serviceaccount.yaml")
                      role == FileContent(result.files, "role.yaml")
                      rb == FileContent(result.files, "rolebinding.yaml")
                  IN  /\ sa.kind = "ServiceAccount"
                      /\ role.kind = "Role"
                      /\ rb.kind = "RoleBinding"
                      /\ rb.subjectKind = sa.kind
                      /\ rb.subjectName = sa.name
                      /\ rb.subjectNamespace = sa.namespace
                      /\ rb.roleRefKind = role.kind
                      /\ rb.roleRefName = role.name
                      /\ rb.namespace = role.namespace
          ELSE RbacFiles \cap FileNames(result.files) = {}
    /\ (Compiling /\ pc # "returned") => RbacFiles \cap FileNames(files) = {}

\* a request of two tiers with enableRBAC true has been compiled
C19_Witness ==
    /\ pc = "returned"
    /\ TruthyB(payload, "enableRBAC")
    /\ Len(Tiers) = 2
    /\ RbacFiles \subseteq FileNames(result.files)
    /\ Len(result.files) >= 6

\* the resources of a tier, {} when it has none
ResourcesOf(t) == IF Has(t, "resources") THEN t.resources ELSE EmptyObject

\* a resources field is present when it is given and not blank
Present(t, f) == Has(ResourcesOf(t), f) /\ ResourcesOf(t)[f] # ""

\* the positions of the header lines named key
HeadersAt(lines, key) ==
    {n \in 1..Len(lines) : lines[n].key = key /\ lines[n].value = ""}

\* the lines of the sub-block whose header is at position h: the lines that
\* follow it, up to the next header or the end
SubBlock(lines, h) ==
    LET stop == {n \in (h + 1)..Len(lines) : lines[n].value = ""}
        last == IF stop = {} THEN Len(lines)
                ELSE (CHOOSE n \in stop : \A m \in stop : n <= m) - 1
    IN  [n \in 1..(last - h) |->
            [key |-> lines[h + n].key, value |-> lines[h + n].value]]

\* the lines a sub-block has to list: its present fields, cpu first
FieldsOf(t, cpu, memory) ==
    (IF Present(t, cpu)
     THEN <<[key |-> "cpu", value |-> t.resources[cpu]]>> ELSE <<>>)
    \o (IF Present(t, memory)
        THEN <<[key |-> "memory", value |-> t.resources[memory]]>> ELSE <<>>)

\* the lines under resources: have the sub-block named key exactly when
\* one of its two fields is present, and it lists exactly those
SubBlockEmitted(t, lines, key, cpu, memory) ==
    /\ HeadersAt(lines, key) # {} <=> (Present(t, cpu) \/ Present(t, memory))
    /\ Cardinality(HeadersAt(lines, key)) <= 1
    /\ \A h \in HeadersAt(lines, key) :
          SubBlock(lines, h) = FieldsOf(t, cpu, memory)

\* C20: in every workload document, for every combination of present and
\* absent requestsCpu, requestsMemory, limitsCpu and limitsMemory, the
\* requests sub-block is there exactly when requestsCpu or requestsMemory
\* is present and the limits sub-block exactly when limitsCpu or
\* limitsMemory is; each lists exactly its present fields; there is no line
\* outside the two sub-blocks, hence no resources block when all four are
\* absent.
C20_ResourcesEmission ==
    \A i \in 1..Len(Tiers) :
        \A e \in RenderedOf(i) :
            Workload(e.content) =>
                LET lines == e.content.resourceLines
                    t == Tiers[i]
                IN  /\ SubBlockEmitted(t, lines, "requests",
                                       "requestsCpu", "requestsMemory")
                    /\ SubBlockEmitted(t, lines, "limits",
                                       "limitsCpu", "limitsMemory")
                    /\ Len(lines) =
                          Cardinality(HeadersAt(lines, "requests"))
                          + Len(FieldsOf(t, "requestsCpu", "requestsMemory"))
                          + Cardinality(HeadersAt(lines, "limits"))
                          + Len(FieldsOf(t, "limitsCpu", "limitsMemory"))
                    /\ (\A f \in {"requestsCpu", "requestsMemory",
                                   "limitsCpu", "limitsMemory"} : ~Present(t, f))
                          => Len(lines) = 0

\* a StatefulSet tier with requestsMemory and limitsCpu only, and a blank
\* requestsCpu, has been compiled: a requests sub-block of one line and a
\* limits sub-block of one line
C20_Witness ==
    /\ pc = "returned"
    /\ \E i \in 1..Len(Tiers) :
          /\ Has(ResourcesOf(Tiers[i]), "requestsCpu")
          /\ ~Present(Tiers[i], "requestsCpu")
          /\ Present(Tiers[i], "requestsMemory")
          /\ Present(Tiers[i], "limitsCpu")
          /\ ~Present(Tiers[i], "limitsMemory")
          /\ \E d \in DocsOf(i, "StatefulSet") :
                [n \in 1..Len(d.resourceLines) |-> d.resourceLines[n].key]
                    = <<"requests", "memory", "limits", "cpu">>

\* the probe of a tier has both path and port: a path that is not blank and
\* a port that is not 0
ProbePresent(t, field) ==
    /\ Has(t, field)
    /\ Has(t[field], "path") /\ t[field].path # ""
    /\ Has(t[field], "port") /\ t[field].port # 0

\* the supplied value of a probe setting, 0 included, 10 when it is absent
ProbeSetting(probe, k) == IF Has(probe, k) THEN probe[k] ELSE 10

\* block, from a workload document, is the probe block of kind type
\* for the probe of tier t under field
ProbeEmitted(t, field, type, block) ==
    /\ block # NULL <=> ProbePresent(t, field)
    /\ block # NULL =>
          /\ block.type = type
          /\ block.path = t[field].path
          /\ block.port = t[field].port
          /\ block.initialDelaySeconds = ProbeSetting(t[field], "initialDelaySeconds")
          /\ block.periodSeconds = ProbeSetting(t[field], "periodSeconds")

\* C21: in every workload document the liveness block and the readiness
\* block are each there exactly when the tier's probe of that kind has both
\* path and port; a block that is there has the supplied
\* initialDelaySeconds and periodSeconds, a supplied 0 included, and 10 for
\* each one that is absent.
C21_ProbeBlock ==
    \A i \in 1..Len(Tiers) :
        \A e \in RenderedOf(i) :
            Workload(e.content) =>
                /\ ProbeEmitted(Tiers[i], "livenessProbe", "liveness",
                                e.content.livenessProbe)
                /\ ProbeEmitted(Tiers[i], "readinessProbe", "readiness",
                                e.content.readinessProbe)

\* a StatefulSet has been rendered with a readiness block whose
\* initialDelaySeconds is the supplied 0 and whose periodSeconds is the
\* default, next to a liveness block
C21_Witness ==
    /\ pc = "returned"
    /\ \E i \in 1..Len(Tiers) :
          /\ ProbePresent(Tiers[i], "readinessProbe")
          /\ Has(Tiers[i].readinessProbe, "initialDelaySeconds")
          /\ Tiers[i].readinessProbe.initialDelaySeconds = 0
          /\ ~Has(Tiers[i].readinessProbe, "periodSeconds")
          /\ \E d \in DocsOf(i, "StatefulSet") :
                /\ d.livenessProbe # NULL
                /\ d.readinessProbe # NULL
                /\ d.readinessProbe.initialDelaySeconds = 0
                /\ d.readinessProbe.periodSeconds = 10

\* the optional fields of the volume source of each backend: the field of
\* the rendered source, the field of pv it is taken from, and its default
BackendDefaults(t) ==
    LET own == payload.appName \o "-" \o t.name
    IN  CASE t.pv.type = "hostPath" ->
               {[field |-> "path", from |-> "hostPath",
                 default |-> "/mnt/data/" \o own]}
          [] t.pv.type = "local" ->
               {[field |-> "path", from |-> "localPath",
                 default |-> "/mnt/local/" \o own]}
          [] t.pv.type = "awsEbs" ->
               {[field |-> "fsType", from |-> "awsFsType", default |-> "ext4"]}
          [] t.pv.type = "gcePd" ->
               {[field |-> "fsType", from |-> "gceFsType", default |-> "ext4"]}
          [] t.pv.type = "azureDisk" ->
               {[field |-> "kind", from |-> "azureKind", default |-> "Managed"],
                [field |-> "cachingMode", from |-> "azureCachingMode",
                 default |-> "None"]}
          [] t.pv.type = "cephRbd" ->
               {[field |-> "secretRefName", from |-> "cephSecretName",
                 default |-> payload.appName \o "-ceph-secret"],
                [field |-> "fsType", from |-> "cephFsType", default |-> "ext4"]}
          [] t.pv.type = "iscsi" ->
               {[field |-> "fsType", from |-> "iscsiFsType", default |-> "ext4"]}
          [] OTHER -> {}

\* C22 as stated: in every PersistentVolume rendered, each optional field
\* of the backend has the value supplied in pv when one is given (given and
\* not blank) and its default otherwise, and reclaimPolicy has the value
\* supplied when one is given and Retain otherwise.
C22_PvBackendDefaults ==
    \A i \in 1..Len(Tiers) :
        \A d \in DocsOf(i, "PersistentVolume") :
            /\ \A o \in BackendDefaults(Tiers[i]) :
                  d.volumeSource[o.field] = SuppliedOr(Tiers[i].pv, o.from, o.default)
            /\ d.reclaimPolicy = SuppliedOr(Tiers[i].pv, "reclaimPolicy", "Retain")

\* the one response of the last exchange
Response == exchange.responses[1]

\* C23: the handler of POST /api/generate/:module sends exactly one response
\* per request: for a module other than kubernetes, 400 with success false
\* and no call of the compiler; for kubernetes and a body that fails
\* validation, a status of the 400 class with success false and the full
\* list of violations as details; for kubernetes and a body the compiler
\* returns for, success true and the files it returned; for kubernetes and
\* any other exception, 500 with success false.
C23_OutcomeMapping ==
    exchange # NULL =>
        LET module == exchange.request.module
            body == exchange.request.body
        IN  /\ Len(exchange.responses) = 1
            /\ module # "kubernetes" =>
                  /\ Response.status = 400
                  /\ ~Response.body.success
                  /\ ~exchange.compiled
            /\ (module = "kubernetes" /\ Invalid(body)) =>
                  /\ Response.status \in 400..499
                  /\ ~Response.body.success
                  /\ Response.body.details = ExpectedViolations(body)
            /\ (module = "kubernetes" /\ ~Invalid(body)) =>
                  IF Compile(body).status = "returned"
                  THEN /\ Response.status = 200
                       /\ Response.body.success
                       /\ Response.body.files = Compile(body).result.files
                  ELSE /\ Response.status = 500
                       /\ ~Response.body.success

\* a request for kubernetes whose body breaks two of the checks has been
\* answered
C23_Witness ==
    /\ exchange # NULL
    /\ exchange.request.module = "kubernetes"
    /\ ~Has(exchange.request.body, "appName")
    /\ ~Has(exchange.request.body, "tiers")
    /\ Response.status = 400
    /\ Len(Response.body.details) = 2

\* the content of the last statement executed that saved under name
RECURSIVE LastSaved(_, _)
LastSaved(log, name) ==
    IF log[Len(log)].name = name THEN log[Len(log)].content
    ELSE LastSaved(SubSeq(log, 1, Len(log) - 1), name)

OnePerName ==
    \A r1, r2 \in db.rows : r1.name = r2.name => r1 = r2

ReadsLastSaved ==
    \A r \in db.rows : getTemplate(db, r.id).content = LastSaved(saved, r.name)

\* a step in which the database executes saveTemplate(name, content)
SaveStep ==
    Len(saved') = Len(saved) + 1 =>
        LET name == saved'[Len(saved')].name
            content == saved'[Len(saved')].content
        IN  IF \E r \in db.rows : r.name = name
            THEN LET r == CHOOSE r \in db.rows : r.name = name
                 IN  db'.rows = (db.rows \ {r})
                                \cup {[id |-> r.id, name |-> name,
                                       content |-> content,
                                       created_at |-> r.created_at]}
            ELSE /\ Cardinality(db'.rows) = Cardinality(db.rows) + 1
                 /\ db.rows \subseteq db'.rows
                 /\ \A r \in db'.rows \ db.rows :
                       r.name = name /\ r.content = content

\* C24: whatever saveTemplate calls have been made, and in whatever order
\* the database executed them, the store holds at most one template per
\* name; a save under an existing name replaces the content of that template
\* and keeps its id and created_at, a save under a new name adds one
\* template; getTemplate of a template's id returns the content last saved
\* under its name.
C24_UpsertByName ==
    /\ [](OnePerName /\ ReadsLastSaved)
    /\ [][SaveStep]_vars

\* two requests saved different contents under one name, and the database
\* executed the statement of the second before that of the first
C24_Witness ==
    /\ Len(saved) = 2
    /\ Len(handlers) = 2
    /\ saved[1].name = saved[2].name
    /\ saved[1].content # saved[2].content
    /\ handlers[1].body = saved[2]
    /\ handlers[2].body = saved[1]
    /\ Cardinality(db.rows) = 1

\* the position of the header of the sub-block line n belongs to
HeaderOf(lines, n) ==
    CHOOSE h \in 1..n :
        /\ lines[h].value = ""
        /\ \A m \in (h + 1)..n : lines[m].value # ""

\* the headers are keys at one indentation, and each cpu or memory line is
\* one level (two blanks) deeper than the header of its sub-block
Layout(lines) ==
    /\ \A h, k \in 1..Len(lines) :
          (lines[h].value = "" /\ lines[k].value = "") =>
              lines[h].indent = lines[k].indent
    /\ \A n \in 1..Len(lines) :
          lines[n].value # "" =>
              lines[n].indent = lines[HeaderOf(lines, n)].indent + 2

\* C25 as stated: in every workload document, with both sub-blocks or only
\* one emitted, requests: and limits: are at the same indentation and each
\* cpu or memory line is exactly one level deeper than the header of the
\* sub-block it belongs to.
C25_ResourcesStructure ==
    \A i \in 1..Len(Tiers) :
        \A e \in RenderedOf(i) :
            Workload(e.content) => Layout(e.content.resourceLines)

\* the layout the block has when one sub-block only is emitted
OneSubBlockLayout ==
    \A i \in 1..Len(Tiers) :
        \A e \in RenderedOf(i) :
            (/\ Workload(e.content)
             /\ \/ HeadersAt(e.content.resourceLines, "requests") = {}
                \/ HeadersAt(e.content.resourceLines, "limits") = {})
                => Layout(e.content.resourceLines)

\* initDbWithRetry has returned
InitFinished == boot.pc = "finished"

\* a step of a request handler, or of the database on behalf of one
HandlerStep ==
    \/ handlers' # handlers
    \/ exchange' # exchange
    \/ received' # received

\* initDbWithRetry returns in this step
ReturnStep == boot'.pc = "finished" /\ boot.pc # "finished"

\* C26: the server listens only once initDbWithRetry has finished, which it
\* does when a db.init attempt has succeeded or when all attempts have
\* failed; no request handler takes a step before the server listens, so
\* none runs before the first attempt or while an attempt is pending.
C26_StartOrdering ==
    /\ [](boot.listening => InitFinished)
    /\ [][ReturnStep =>
            \/ boot.pc = "init" /\ db'.exists
            \/ boot.pc = "loop" /\ boot.attempts = boot.retries
                                /\ boot.i = boot.retries]_vars
    /\ [][HandlerStep => boot.listening /\ InitFinished]_vars

\* every attempt has failed on a database that has no table, the server
\* listens all the same, and a templates handler has answered 500
C26_Witness ==
    /\ boot.listening
    /\ ~db.exists
    /\ \E n \in 1..Len(handlers) :
          handlers[n].stage = "answered" /\ handlers[n].status = 500

\* the waits so far are the gaps between the attempts made and the one still
\* to come, if any: none after the last attempt
WaitsBetween ==
    ~InitFinished =>
        /\ boot.waits \in {boot.attempts - 1, boot.attempts} \cap Nat
        /\ boot.attempts = boot.retries => boot.waits = boot.attempts - 1
                                           \/ boot.retries = 0
        /\ (boot.pc \in {"loop", "sleep"} /\ boot.attempts < boot.retries)
              => boot.waits = boot.attempts
        /\ boot.pc = "sleep" => boot.attempts < boot.retries

\* C27: initDbWithRetry calls db.init at most retries times and not again
\* after a call has succeeded, waits between consecutive failed attempts
\* and not after the last, returns whether or not an attempt succeeded, and
\* the server listens in the end in every run.
C27_RetryLoop ==
    /\ [](boot.attempts <= boot.retries)
    /\ [](boot.pc \in {"loop", "init", "sleep", "finished"})
    /\ [][InitFinished => boot'.attempts = boot.attempts]_vars
    /\ [][boot.pc = "init" /\ db'.exists /\ ~db.exists => ReturnStep]_vars
    /\ []WaitsBetween
    /\ <>InitFinished
    /\ <>[]boot.listening

\* the startup's fifteen attempts have all failed, with fourteen waits
C27_Witness ==
    /\ boot.pc = "loop"
    /\ boot.retries = StartupRetries
    /\ boot.i = StartupRetries
    /\ boot.attempts = StartupRetries
    /\ boot.waits = StartupRetries - 1

\* how many entries of the list are named name
CountNamed(list, name) ==
    Cardinality({k \in 1..Len(list) : list[k].name = name})

\* the claim templates of a workload document: a Deployment has none
TemplatesOf(d) ==
    IF Has(d, "volumeClaimTemplates") THEN d.volumeClaimTemplates ELSE <<>>

\* every mount of d has exactly one volume or claim template of its name,
\* and every volume or claim template exactly one mount
MountsMatchVolumes(d) ==
    /\ \A k \in 1..Len(d.volumeMounts) :
          CountNamed(d.volumes, d.volumeMounts[k].name)
          + CountNamed(TemplatesOf(d), d.volumeMounts[k].name) = 1
    /\ \A k \in 1..Len(d.volumes) :
          CountNamed(d.volumeMounts, d.volumes[k].name) = 1
    /\ \A k \in 1..Len(TemplatesOf(d)) :
          CountNamed(d.volumeMounts, TemplatesOf(d)[k].name) = 1

\* a file of the mapping holds the document of that kind and name
Defines(fs, kind, name) ==
    \E k \in 1..Len(fs) :
        fs[k].content.kind = kind /\ fs[k].content.name = name

\* every ConfigMap, Secret or claim a volume of d refers to is in the mapping
ReferencesDefined(fs, d) ==
    \A k \in 1..Len(d.volumes) :
        Defines(fs, KindOfSource(d.volumes[k].source), d.volumes[k].ref)

\* C28 as stated: in every Deployment or StatefulSet of the returned
\* mapping, mounts and volumes (or claim templates) match one to one by
\* name, and every ConfigMap, Secret or PersistentVolumeClaim a volume
\* refers to is defined by a file of the same mapping.
C28_VolumeConsistency ==
    pc = "returned" =>
        \A k \in 1..Len(result.files) :
            LET d == result.files[k].content
            IN  Workload(d) =>
                    /\ MountsMatchVolumes(d)
                    /\ ReferencesDefined(result.files, d)

\* the same, for the requests none of whose tiers is named like a member
\* of Object.prototype
VolumeConsistencyOfOwnNames ==
    (\A i \in 1..Len(Tiers) : Tiers[i].name \notin ObjectPrototypeKeys)
        => C28_VolumeConsistency

\* the path entries of every rule of an Ingress document
BackendsOf(ingress) ==
    UNION {{ingress.rules[r].paths[q] : q \in 1..Len(ingress.rules[r].paths)} :
              r \in 1..Len(ingress.rules)}

\* the mapping holds service-{t.name}.yaml with the Service {appName}-{t.name}
\* and the port the path entry names
BackedBy(fs, t, entry) ==
    /\ entry.serviceName = Named(t, "")
    /\ FilesHas(fs, "service-" \o t.name \o ".yaml")
    /\ LET svc == FileContent(fs, "service-" \o t.name \o ".yaml")
       IN  /\ svc.kind = "Service"
           /\ svc.name = entry.serviceName
           /\ svc.port = entry.servicePort

\* C29 as stated: every path rule of ingress.yaml in the returned mapping
\* names the Service {appName}-{tier.name} of a tier whose
\* service-{tier.name}.yaml is in the mapping, with the port that Service
\* document declares.
C29_IngressBackends ==
    (pc = "returned" /\ FilesHas(result.files, "ingress.yaml")) =>
        \A entry \in BackendsOf(FileContent(result.files, "ingress.yaml")) :
            \E i \in 1..Len(Tiers) : BackedBy(result.files, Tiers[i], entry)

\* the same, for the requests whose tiers have distinct names
IngressBackendsOfDistinctNames ==
    (\A i, j \in 1..Len(Tiers) : Tiers[i].name = Tiers[j].name => i = j)
        => C29_IngressBackends

\* tiers with exactly row rIndex taken out of that list of tier index
WithoutRow(tiers, index, list, rIndex) ==
    [tiers EXCEPT ![index][list] =
        SubSeq(@, 1, rIndex - 1) \o SubSeq(@, rIndex + 1, Len(@))]

\* C30 as stated: pressing the remove button of row r of one of a tier's
\* three lists removes exactly row r from that list, and leaves the tier's
\* other two lists and every other tier as they were.
C30_RowRemovalFrame ==
    [][\A index \in 1..MaxTiers, list \in Lists, rIndex \in 1..MaxRows :
          PressRemove(index, list, rIndex) =>
              form'.tiers = WithoutRow(form.tiers, index, list, rIndex)]_vars

\* the same, for the remove buttons of the configMapData rows
ConfigMapRowRemovalFrame ==
    [][\A index \in 1..MaxTiers, rIndex \in 1..MaxRows :
          PressRemove(index, "configMapData", rIndex) =>
              form'.tiers = WithoutRow(form.tiers, index, "configMapData",
                                       rIndex)]_vars
====
